---- MODULE Spec2Model ----
(***************************************************************************)
(* plantr: dependency resolution (src/src/dependency-resolver.ts) and the  *)
(* seeder execution engine (src/src/run-seeders.ts).                       *)
(*                                                                         *)
(* A seeder is a record [name, dependsOn]; its run function is modelled by *)
(* the environment choosing, at each invocation, whether it resolves (and  *)
(* with which output) or rejects (and with which thrown value).            *)
(***************************************************************************)
EXTENDS Integers, Sequences, FiniteSets, TLC

(***************************************************************************)
(* Bounds of the model.                                                    *)
(***************************************************************************)
\* resolveDependencyOrder is applied to arrays of at most MaxSeeders seeders
\* holding at most MaxEdges dependency entries in all.
MaxSeeders == 3
MaxEdges == 3
\* runSeeders is applied to arrays within these bounds.
MaxRunSeeders == 3
MaxRunEdges == 2
\* The caller resolves an array within these bounds this many times.
MaxRepeatSeeders == 2
MaxRepeatEdges == 2
MaxResolutions == 2

\* Names a seeder may carry.  The empty string is a legal `name: string`.
SeederNames == {"", "a", "b"}
\* Names a dependsOn list may hold; a name is missing from an array when
\* no seeder of that array carries it.
DepNames == SeederNames
\* Values a run function may resolve with.
Outputs == {"out1", "out2"}
\* Values a run function may reject with: an Error instance, or a string.
Thrown == {"Error(boom)", "oops"}
\* Elapsed wall-clock milliseconds Date.now() may report for one seeder.
Durations == {7}

\* A name argument an outcome does not carry.
Absent == "absent"
\* JavaScript's undefined, as the value read from a key an object lacks.
Undefined == "undefined"
\* An optional field (durationMs?, output?, error?): unset, or set to v.
None == <<>>
Some(v) == <<v>>

(***************************************************************************)
(* Helpers over sequences.                                                 *)
(***************************************************************************)
Range(s) == {s[k] : k \in 1..Len(s)}

\* Array.prototype.includes
Includes(s, x) == \E k \in 1..Len(s) : s[k] = x

\* Array.prototype.indexOf, 1-based; 0 when absent (JavaScript's -1).
IndexOf(s, x) ==
    IF Includes(s, x) THEN CHOOSE k \in 1..Len(s) : s[k] = x /\ \A j \in 1..(k - 1) : s[j] # x
    ELSE 0

RECURSIVE Concat(_)
\* Concatenation of a sequence of sequences.
Concat(ss) == IF ss = <<>> THEN <<>> ELSE Head(ss) \o Concat(Tail(ss))

(***************************************************************************)
(* Types                                                                   *)
(***************************************************************************)
\* type Seeder = { name, dependsOn: readonly string[], run }
Seeder(name, dependsOn) == [name |-> name, dependsOn |-> dependsOn]

\* The three outcomes of resolveDependencyOrder: the returned array, or one
\* of the two thrown errors with the arguments of its constructor.
Ordered(order) ==
    [kind |-> "order", order |-> order, seeder |-> Absent, missingDep |-> Absent, cycle |-> <<>>]

MissingDependencyError(seeder, missingDep) ==
    [kind |-> "MissingDependencyError", order |-> <<>>, seeder |-> seeder,
     missingDep |-> missingDep, cycle |-> <<>>]

CircularDependencyError(cycle) ==
    [kind |-> "CircularDependencyError", order |-> <<>>, seeder |-> Absent,
     missingDep |-> Absent, cycle |-> cycle]

(***************************************************************************)
(* resolveDependencyOrder                                                  *)
(***************************************************************************)
\* Keys of a Map filled by `for (const seeder of seeders) map.set(seeder.name, ..)`.
SeederKeys(seeders) == {seeders[k].name : k \in 1..Len(seeders)}

\* const seederMap = new Map(); for (seeder of seeders) seederMap.set(seeder.name, seeder)
\* A later definition with the same name replaces the earlier one.
seederMap(seeders) ==
    [n \in SeederKeys(seeders) |->
        LET last == CHOOSE k \in 1..Len(seeders) :
                        /\ seeders[k].name = n
                        /\ \A j \in (k + 1)..Len(seeders) : seeders[j].name # n
        IN seeders[last]]

\* Iteration order of a Map keyed by seeder name: the order of first insertion.
KeyOrder(seeders) ==
    LET firsts == SelectSeq([k \in 1..Len(seeders) |-> k],
                            LAMBDA k : \A j \in 1..(k - 1) : seeders[j].name # seeders[k].name)
    IN [k \in 1..Len(firsts) |-> seeders[firsts[k]].name]

\* The (seeder, dep) pairs in the order the two nested loops visit them.
DependencyPairs(seeders) ==
    Concat([k \in 1..Len(seeders) |->
              [j \in 1..Len(seeders[k].dependsOn) |->
                  [seeder |-> seeders[k].name, dep |-> seeders[k].dependsOn[j]]]])

\* FirstMissing with the two constructor arguments exchanged.
FirstMissingSwapped(seeders) ==
    LET missing == SelectSeq(DependencyPairs(seeders),
                             LAMBDA p : p.dep \notin SeederKeys(seeders))
    IN IF missing = <<>> THEN <<>>
       ELSE <<[seeder |-> Head(missing).dep, dep |-> Head(missing).seeder]>>

\* Validate all dependencies exist: the first pair whose dep is not a key
\* of seederMap, as a one-element sequence; empty when every dep exists.
FirstMissing(seeders) ==
    LET missing == SelectSeq(DependencyPairs(seeders),
                             LAMBDA p : p.dep \notin SeederKeys(seeders))
    IN IF missing = <<>> THEN <<>> ELSE <<Head(missing)>>

\* InitialInDegree counting a seeder's dependencies as one.
InitialInDegreeAtMostOne(seeders) ==
    [n \in SeederKeys(seeders) |-> IF Len(seederMap(seeders)[n].dependsOn) > 0 THEN 1 ELSE 0]

\* inDegree after "Build the graph": inDegree.set(seeder.name, seeder.dependsOn.length)
InitialInDegree(seeders) ==
    [n \in SeederKeys(seeders) |-> Len(seederMap(seeders)[n].dependsOn)]

\* A variant of Dependents that keeps each dependent once per dependency.
DependentsDistinct(seeders) ==
    [n \in SeederKeys(seeders) |->
        LET pairs == SelectSeq(DependencyPairs(seeders), LAMBDA p : p.dep = n)
            names == [k \in 1..Len(pairs) |-> pairs[k].seeder]
            firsts == SelectSeq([k \in 1..Len(names) |-> k],
                                LAMBDA k : \A j \in 1..(k - 1) : names[j] # names[k])
        IN [k \in 1..Len(firsts) |-> names[firsts[k]]]]

\* dependents after "Build the graph": dependents.get(dep).push(seeder.name)
Dependents(seeders) ==
    [n \in SeederKeys(seeders) |->
        LET pairs == SelectSeq(DependencyPairs(seeders), LAMBDA p : p.dep = n)
        IN [k \in 1..Len(pairs) |-> pairs[k].seeder]]

\* InitialQueue without the degree === 0 test.
InitialQueueEveryName(seeders) == KeyOrder(seeders)

\* A variant of InitialQueue that takes the names last defined first.
InitialQueueReversed(seeders) ==
    LET q == SelectSeq(KeyOrder(seeders), LAMBDA n : InitialInDegree(seeders)[n] = 0)
    IN [k \in 1..Len(q) |-> q[Len(q) + 1 - k]]

\* Find all seeders with no dependencies (in-degree 0), in Map order.
InitialQueue(seeders) ==
    SelectSeq(KeyOrder(seeders), LAMBDA n : InitialInDegree(seeders)[n] = 0)

RECURSIVE ReduceInDegree(_, _, _)
\* for (const dependent of deps) { newDegree = inDegree.get(dependent) - 1; ... }
ReduceInDegree(deps, inDegree, queue) ==
    IF deps = <<>> THEN [inDegree |-> inDegree, queue |-> queue]
    ELSE LET dependent == Head(deps)
             newDegree == inDegree[dependent] - 1
         IN ReduceInDegree(Tail(deps),
                           [inDegree EXCEPT ![dependent] = newDegree],
                           IF newDegree = 0 THEN Append(queue, dependent) ELSE queue)

RECURSIVE ProcessQueue(_, _, _, _)
\* while (queue.length > 0) { current = queue.shift(); result.push(current); ... }
ProcessQueue(queue, result, inDegree, dependents) ==
    IF queue = <<>> THEN result
    ELSE LET current == Head(queue)
             after == ReduceInDegree(dependents[current], inDegree, Tail(queue))
         IN ProcessQueue(after.queue, Append(result, current), after.inDegree, dependents)

\* The `result` array when the while loop ends.
KahnResult(seeders) ==
    ProcessQueue(InitialQueue(seeders), <<>>, InitialInDegree(seeders), Dependents(seeders))

RECURSIVE dfs(_, _, _)
RECURSIVE dfsDeps(_, _, _)
\* function dfs(name): st = [found, visited, path, cycleStart] is the state
\* of the closure variables; cycleStart is 1-based, 0 standing for -1.
dfs(name, st, map) ==
    LET existingIndex == IndexOf(st.path, name) IN
    IF existingIndex # 0 THEN [st EXCEPT !.found = TRUE, !.cycleStart = existingIndex]
    ELSE IF name \in st.visited THEN [st EXCEPT !.found = FALSE]
    ELSE LET entered == [st EXCEPT !.visited = @ \cup {name}, !.path = Append(@, name)]
             after == IF name \in DOMAIN map
                      THEN dfsDeps(map[name].dependsOn, entered, map)
                      ELSE [entered EXCEPT !.found = FALSE]
         IN IF after.found THEN after
            ELSE [after EXCEPT !.path = SubSeq(@, 1, Len(@) - 1)]

\* for (const dep of seeder.dependsOn) { if (dfs(dep)) return true }
dfsDeps(deps, st, map) ==
    IF deps = <<>> THEN [st EXCEPT !.found = FALSE]
    ELSE LET after == dfs(Head(deps), st, map)
         IN IF after.found THEN after ELSE dfsDeps(Tail(deps), after, map)

RECURSIVE findCycleFrom(_, _, _, _)
\* for (const seeder of remaining) { path.length = 0; cycleStart = -1; if (dfs(..)) return .. }
findCycleFrom(k, remaining, visited, map) ==
    IF k > Len(remaining) THEN [j \in 1..Len(remaining) |-> remaining[j].name]
    ELSE LET after == dfs(remaining[k].name,
                          [found |-> FALSE, visited |-> visited, path |-> <<>>, cycleStart |-> 0],
                          map)
         IN IF after.found
            THEN IF after.cycleStart >= 1
                 THEN SubSeq(after.path, after.cycleStart, Len(after.path))
                 ELSE after.path
            ELSE findCycleFrom(k + 1, remaining, after.visited, map)

RECURSIVE findCycleWholePathFrom(_, _, _, _)
\* findCycleFrom returning the whole path instead of path.slice(cycleStart).
findCycleWholePathFrom(k, remaining, visited, map) ==
    IF k > Len(remaining) THEN [j \in 1..Len(remaining) |-> remaining[j].name]
    ELSE LET after == dfs(remaining[k].name,
                          [found |-> FALSE, visited |-> visited, path |-> <<>>, cycleStart |-> 0],
                          map)
         IN IF after.found THEN after.path
            ELSE findCycleWholePathFrom(k + 1, remaining, after.visited, map)

\* findCycle returning the whole path.
findCycleWholePath(remaining, map) == findCycleWholePathFrom(1, remaining, {}, map)

\* function findCycle(remaining, seederMap): string[]
findCycle(remaining, map) == findCycleFrom(1, remaining, {}, map)

\* resolveDependencyOrder without the result.length !== seeders.length check.
resolveDependencyOrderUnchecked(seeders) ==
    LET missing == FirstMissing(seeders) IN
    IF missing # <<>> THEN MissingDependencyError(missing[1].seeder, missing[1].dep)
    ELSE Ordered(KahnResult(seeders))

\* A variant of resolveDependencyOrder that orders first and validates the
\* dependencies afterwards.
resolveDependencyOrderOrderFirst(seeders) ==
    LET result == KahnResult(seeders)
        missing == FirstMissing(seeders)
    IN IF Len(result) # Len(seeders)
       THEN LET remaining == SelectSeq(seeders, LAMBDA s : ~Includes(result, s.name))
            IN CircularDependencyError([k \in 1..Len(remaining) |-> remaining[k].name])
       ELSE IF missing # <<>> THEN MissingDependencyError(missing[1].seeder, missing[1].dep)
       ELSE Ordered(result)

\* export function resolveDependencyOrder(seeders): string[]
resolveDependencyOrder(seeders) ==
    LET missing == FirstMissing(seeders) IN
    IF missing # <<>> THEN MissingDependencyError(missing[1].seeder, missing[1].dep)
    ELSE LET result == KahnResult(seeders) IN
         IF Len(result) # Len(seeders)
         THEN LET remaining == SelectSeq(seeders, LAMBDA s : ~Includes(result, s.name))
              IN CircularDependencyError(findCycle(remaining, seederMap(seeders)))
         ELSE Ordered(result)

(***************************************************************************)
(* resolveDependencyOrder, statement by statement on the objects it is     *)
(* given and the objects it creates                                        *)
(***************************************************************************)
\* The reference of the array handed to resolveDependencyOrder, and of the
\* dependsOn array of its k-th seeder.
SeedersRef == <<"seeders", 0>>
DependsOnRef(k) == <<"dependsOn", k>>

\* The arrays the caller holds when it calls: the array of seeders, each
\* seeder a name and the reference of its dependsOn array, and those
\* arrays.
ArgumentHeap(ss) ==
    [ref \in {SeedersRef} \cup {DependsOnRef(k) : k \in 1..Len(ss)} |->
        IF ref = SeedersRef
        THEN [k \in 1..Len(ss) |-> [name |-> ss[k].name, dependsOn |-> DependsOnRef(k)]]
        ELSE ss[ref[2]].dependsOn]

\* What the caller finds in its array, and in the dependsOn arrays of the
\* seeders in it, after the call.
ArgumentOf(heap) ==
    [k \in 1..Len(heap[SeedersRef]) |->
        Seeder(heap[SeedersRef][k].name, heap[heap[SeedersRef][k].dependsOn])]

\* [] : the reference of an array no one holds yet.
NewRef(heap) == <<"new", Cardinality(DOMAIN heap)>>
NewArray(heap, ref) == [r \in DOMAIN heap \cup {ref} |-> IF r = ref THEN <<>> ELSE heap[r]]

\* array.push(value) and array.shift()
ArrayPush(heap, ref, value) == [heap EXCEPT ![ref] = Append(@, value)]
ArrayShift(heap, ref) == [heap EXCEPT ![ref] = Tail(@)]

\* new Map(), map.set(key, value), map.has(key): keys is the iteration
\* order, the order of first insertion.
NewMap == [keys |-> <<>>, val |-> <<>>]
MapHas(map, key) == key \in DOMAIN map.val
MapSet(map, key, value) ==
    [keys |-> IF MapHas(map, key) THEN map.keys ELSE Append(map.keys, key),
     val |-> [k \in DOMAIN map.val \cup {key} |-> IF k = key THEN value ELSE map.val[k]]]

\* The objects of one call: the arrays of the caller and, created by the
\* call, seederMap (34), inDegree (49), dependents (50), queue (70) and
\* result (78).
NewFrame(heap) ==
    LET queue == NewRef(heap)
        withQueue == NewArray(heap, queue)
        result == NewRef(withQueue)
    IN [heap |-> NewArray(withQueue, result), seederMap |-> NewMap, inDegree |-> NewMap,
        dependents |-> NewMap, queue |-> queue, result |-> result]

RECURSIVE BuildSeederMap(_, _)
\* for (const seeder of seeders) seederMap.set(seeder.name, seeder)
BuildSeederMap(k, st) ==
    IF k > Len(st.heap[SeedersRef]) THEN st
    ELSE LET seeder == st.heap[SeedersRef][k]
         IN BuildSeederMap(k + 1, [st EXCEPT !.seederMap = MapSet(@, seeder.name, seeder)])

RECURSIVE ValidateDependencies(_, _, _)
\* for (seeder of seeders) for (dep of seeder.dependsOn)
\*     if (!seederMap.has(dep)) throw new MissingDependencyError(seeder.name, dep)
\* The pair thrown, as a one-element sequence; empty when nothing is.
ValidateDependencies(k, j, st) ==
    IF k > Len(st.heap[SeedersRef]) THEN <<>>
    ELSE LET seeder == st.heap[SeedersRef][k]
             deps == st.heap[seeder.dependsOn]
         IN IF j > Len(deps) THEN ValidateDependencies(k + 1, 1, st)
            ELSE IF ~MapHas(st.seederMap, deps[j])
                 THEN <<[seeder |-> seeder.name, dep |-> deps[j]]>>
            ELSE ValidateDependencies(k, j + 1, st)

RECURSIVE InitializeGraph(_, _)
\* for (seeder of seeders) { inDegree.set(seeder.name, 0); dependents.set(seeder.name, []) }
InitializeGraph(k, st) ==
    IF k > Len(st.heap[SeedersRef]) THEN st
    ELSE LET seeder == st.heap[SeedersRef][k]
             ref == NewRef(st.heap)
         IN InitializeGraph(k + 1, [st EXCEPT !.heap = NewArray(@, ref),
                                              !.inDegree = MapSet(@, seeder.name, 0),
                                              !.dependents = MapSet(@, seeder.name, ref)])

RECURSIVE PushDependents(_, _, _)
\* for (const dep of seeder.dependsOn) { deps = dependents.get(dep); if (deps) deps.push(seeder.name) }
PushDependents(j, seeder, st) ==
    IF j > Len(st.heap[seeder.dependsOn]) THEN st
    ELSE LET dep == st.heap[seeder.dependsOn][j]
         IN PushDependents(j + 1, seeder,
                           IF MapHas(st.dependents, dep)
                           THEN [st EXCEPT !.heap = ArrayPush(@, st.dependents.val[dep], seeder.name)]
                           ELSE st)

RECURSIVE BuildGraph(_, _)
\* for (seeder of seeders) { inDegree.set(seeder.name, seeder.dependsOn.length); for (dep ...) }
BuildGraph(k, st) ==
    IF k > Len(st.heap[SeedersRef]) THEN st
    ELSE LET seeder == st.heap[SeedersRef][k]
             counted == [st EXCEPT !.inDegree = MapSet(@, seeder.name,
                                                       Len(st.heap[seeder.dependsOn]))]
         IN BuildGraph(k + 1, PushDependents(1, seeder, counted))

RECURSIVE FillQueue(_, _)
\* for (const [name, degree] of inDegree) if (degree === 0) queue.push(name)
FillQueue(k, st) ==
    IF k > Len(st.inDegree.keys) THEN st
    ELSE LET name == st.inDegree.keys[k]
         IN FillQueue(k + 1, IF st.inDegree.val[name] = 0
                             THEN [st EXCEPT !.heap = ArrayPush(@, st.queue, name)]
                             ELSE st)

RECURSIVE ReduceDependents(_, _, _)
\* for (const dependent of deps) { newDegree = (inDegree.get(dependent) ?? 0) - 1;
\*     inDegree.set(dependent, newDegree); if (newDegree === 0) queue.push(dependent) }
ReduceDependents(j, deps, st) ==
    IF j > Len(st.heap[deps]) THEN st
    ELSE LET dependent == st.heap[deps][j]
             newDegree == (IF MapHas(st.inDegree, dependent) THEN st.inDegree.val[dependent]
                           ELSE 0) - 1
             reduced == [st EXCEPT !.inDegree = MapSet(@, dependent, newDegree)]
         IN ReduceDependents(j + 1, deps,
                             IF newDegree = 0
                             THEN [reduced EXCEPT !.heap = ArrayPush(@, st.queue, dependent)]
                             ELSE reduced)

RECURSIVE ProcessQueueInPlace(_)
\* while (queue.length > 0) { current = queue.shift(); result.push(current);
\*     deps = dependents.get(current) ?? []; for (const dependent of deps) ... }
\* Every name of the queue is a key of inDegree, hence of dependents.
ProcessQueueInPlace(st) ==
    IF st.heap[st.queue] = <<>> THEN st
    ELSE LET current == Head(st.heap[st.queue])
             taken == [st EXCEPT !.heap = ArrayPush(ArrayShift(@, st.queue), st.result, current)]
         IN ProcessQueueInPlace(ReduceDependents(1, st.dependents.val[current], taken))

\* The seeders result does not include, in the order of the array.
NotInResult(st) ==
    SelectSeq(st.heap[SeedersRef], LAMBDA s : ~Includes(st.heap[st.result], s.name))

\* A variant of Remaining that drops the resolved seeders from the array
\* it was given instead of filtering it into a new one.
RemainingInPlace(st) ==
    [heap |-> [st.heap EXCEPT ![SeedersRef] = NotInResult(st)], ref |-> SeedersRef]

\* const remaining = seeders.filter((s) => !result.includes(s.name)): a new
\* array, holding the same seeder objects.
Remaining(st) ==
    LET ref == NewRef(st.heap)
    IN [heap |-> [NewArray(st.heap, ref) EXCEPT ![ref] = NotInResult(st)], ref |-> ref]

\* The call of resolveDependencyOrder on the arrays of heap: the arrays as
\* the call leaves them, and what it returns or throws.  findCycle reads
\* the seeders through seederMap and writes its own visited and path only.
resolveDependencyOrderInPlace(heap) ==
    LET mapped == BuildSeederMap(1, NewFrame(heap))
        missing == ValidateDependencies(1, 1, mapped)
    IN IF missing # <<>>
       THEN [heap |-> mapped.heap,
             outcome |-> MissingDependencyError(missing[1].seeder, missing[1].dep)]
       ELSE LET st == ProcessQueueInPlace(FillQueue(1, BuildGraph(1, InitializeGraph(1, mapped))))
            IN IF Len(st.heap[st.result]) # Len(st.heap[SeedersRef])
               THEN LET remaining == Remaining(st)
                        map == [n \in DOMAIN st.seederMap.val |->
                                   Seeder(n, remaining.heap[st.seederMap.val[n].dependsOn])]
                    IN [heap |-> remaining.heap,
                        outcome |-> CircularDependencyError(
                                        findCycle(remaining.heap[remaining.ref], map))]
               ELSE [heap |-> st.heap, outcome |-> Ordered(st.heap[st.result])]

(***************************************************************************)
(* State                                                                   *)
(***************************************************************************)
VARIABLES
    seeders,            \* the array handed to resolveDependencyOrder / runSeeders
    pc,                 \* where the caller / the run is
    resolution,         \* outcome of the resolveDependencyOrder call
    continueOnFailure,  \* options.continueOnFailure
    orderedNames,       \* run-seeders.ts: orderedNames
    results,            \* run-seeders.ts: results
    outputs,            \* run-seeders.ts: outputs (own keys of the object)
    failedSeeders,      \* run-seeders.ts: failedSeeders
    i,                  \* run-seeders.ts: loop index (1-based)
    isSeeding,          \* seeding-state.ts: isSeeding
    currentSeederName,  \* step.ts: currentSeederName
    calls,              \* every invocation of a run function: name, deps, outcome
    returned,           \* what runSeeders resolved with, once it has
    rejected,           \* what runSeeders rejected with, once it has
    events,             \* onBeforeAll, resolve, run and onAfterAll, as they happen
    hasCache,           \* step.ts: whether config.cache is given
    cache,              \* the entries of the cache behind config.cache
    steps,              \* every call of step: key, useCache, what it did
    resolutions,        \* the caller's resolveDependencyOrder calls: array given, outcome
    contexts,           \* how many times the context factory has been invoked
    ctx,                \* create-seeder-instance.ts: ctx, the instance the factory returned
    runs,               \* the runSeeders invocations that overlap in one process
    entry,              \* the exported function the run was started through
    config              \* the optional members the configuration of the run has

vars == <<seeders, pc, resolution, continueOnFailure, orderedNames, results, outputs,
          failedSeeders, i, isSeeding, currentSeederName, calls, returned, rejected,
          events, hasCache, cache, steps, resolutions, contexts, ctx, runs, entry, config>>

stepVars == <<hasCache, cache, steps>>

runVars == <<orderedNames, results, outputs, failedSeeders, i, calls, returned>>

\* No resolveDependencyOrder call has been made.
Unresolved ==
    [kind |-> "none", order |-> <<>>, seeder |-> Absent, missingDep |-> Absent, cycle |-> <<>>]

\* Number of dependency entries in the whole array.
EdgeCount(ss) == Len(DependencyPairs(ss))

RECURSIVE SeqsUpTo(_, _)
\* The sequences over S of length at most n.
SeqsUpTo(S, n) ==
    IF n <= 0 THEN {<<>>}
    ELSE LET shorter == SeqsUpTo(S, n - 1)
         IN shorter \cup {Append(s, x) : s \in {t \in shorter : Len(t) = n - 1}, x \in S}

\* A value the !name test of the loop treats as missing.
Falsy(name) == name = ""

\* A variant of RunResult for which a run of nothing is no success.
RunResultNonEmpty(rs, success) == [results |-> rs, success |-> success /\ rs # <<>>]

\* const { results, success } : the value runSeedersCore resolves with.
RunResult(rs, success) == [results |-> rs, success |-> success]

\* The property name that reaches the prototype of a plain object instead
\* of a property of its own, and what reading it gives.
ProtoName == "__proto__"
ObjectPrototype == "Object.prototype"

\* The other names a plain object inherits from Object.prototype.
InheritedNames == {"__defineGetter__", "__defineSetter__", "__lookupGetter__", "__lookupSetter__",
                   "constructor", "hasOwnProperty", "isPrototypeOf", "propertyIsEnumerable",
                   "toLocaleString", "toString", "valueOf"}

\* outputs[name] = output on a plain object; store holds the object's own
\* keys.  Assigning to __proto__ creates no key, and a primitive assigned
\* to it (every output of the model is one) leaves the prototype as it is.
OutputsSet(store, name, output) ==
    IF name = ProtoName THEN store
    ELSE [n \in DOMAIN store \cup {name} |-> IF n = name THEN output ELSE store[n]]

\* outputs[depName] on a plain object: an own key, or what the object
\* inherits under that name, or undefined.
OutputsGet(store, depName) ==
    IF depName = ProtoName THEN ObjectPrototype
    ELSE IF depName \in DOMAIN store THEN store[depName]
    ELSE IF depName \in InheritedNames THEN "Object.prototype." \o depName
    ELSE Undefined

\* const deps = {}; for (const depName of seeder.dependsOn) deps[depName] = outputs[depName]
\* The own keys of deps: deps.__proto__ = Object.prototype creates none.
BuildDeps(seeder, store) ==
    [depName \in Range(seeder.dependsOn) \ {ProtoName} |-> OutputsGet(store, depName)]

\* seeder.dependsOn.some((dep) => failedSeeders.has(dep))
HasFailedDep(seeder, failed) == \E k \in 1..Len(seeder.dependsOn) : seeder.dependsOn[k] \in failed

\* A thrown object String() cannot convert: no toString, no valueOf, as
\* Object.create(null); String(error) throws a TypeError on it.
Unprintable == "Object.create(null)"
TypeError == "TypeError(Cannot convert object to primitive value)"
\* Every value a run function may reject with.
ThrownAny == Thrown \cup {Unprintable}

\* error instanceof Error
IsError(error) == error = "Error(boom)"

\* Whether String(error) returns.
Stringable(error) == error # Unprintable

\* error instanceof Error ? error : new Error(String(error))
ToError(error) == IF IsError(error) THEN error ELSE "Error(" \o error \o ")"

\* FailedCount counting every entry that is not completed.
FailedCountNotCompleted(rs) == Cardinality({k \in 1..Len(rs) : rs[k].status # "completed"})

\* results.filter((r) => r.status === 'failed').length
FailedCount(rs) == Cardinality({k \in 1..Len(rs) : rs[k].status = "failed"})

\* No run has been started.
NotStarted == "none"

\* The optional members of InternalSeederConfig; internalConfig of
\* runSeeders has them all.
OptionalMembers == {"onBeforeAll", "onAfterAll", "setSeederName"}

\* How many runSeeders invocations of one process are followed when they
\* overlap.
MaxRuns == 2

Runs == 1..MaxRuns

\* No overlapping invocation has been made.
NoRuns == [r \in Runs |-> [pc |-> "idle", seeders |-> <<>>, orderedNames |-> <<>>,
                           results |-> <<>>, i |-> 1]]

Init ==
    /\ seeders = <<>>
    /\ pc = "define"
    /\ resolution = Unresolved
    /\ continueOnFailure = FALSE
    /\ orderedNames = <<>>
    /\ results = <<>>
    /\ outputs = <<>>
    /\ failedSeeders = {}
    /\ i = 1
    /\ isSeeding = FALSE
    /\ currentSeederName = ""
    /\ calls = <<>>
    /\ returned = None
    /\ rejected = None
    /\ events = <<>>
    /\ hasCache = FALSE
    /\ cache = <<>>
    /\ steps = <<>>
    /\ resolutions = <<>>
    /\ contexts = 0
    /\ ctx = None
    /\ runs = NoRuns
    /\ entry = NotStarted
    /\ config = {}

(***************************************************************************)
(* Building the array of seeders                                           *)
(***************************************************************************)
\* defineSeeder({ name, dependsOn, run }) appended to the array the caller builds.
DefineSeeder(name, dependsOn, maxSeeders, maxEdges) ==
    /\ pc = "define"
    /\ Len(seeders) < maxSeeders
    /\ EdgeCount(seeders) + Len(dependsOn) <= maxEdges
    /\ seeders' = Append(seeders, Seeder(name, dependsOn))
    /\ UNCHANGED <<pc, resolution, continueOnFailure, isSeeding, currentSeederName>>
    /\ UNCHANGED runVars
    /\ UNCHANGED <<rejected, events, hasCache, cache, steps, resolutions, contexts, ctx, runs, entry, config>>

(***************************************************************************)
(* A direct call of resolveDependencyOrder (tests, --dry-run)              *)
(***************************************************************************)
\* resolveDependencyOrder(seeders), called by the caller on the array it
\* defined: what the call returns or throws.
Resolve(maxResolutions) ==
    /\ pc \in {"define", "resolved"}
    /\ Len(resolutions) < maxResolutions
    /\ resolution' = resolveDependencyOrder(seeders)
    /\ resolutions' = Append(resolutions, [input |-> seeders, outcome |-> resolution'])
    /\ pc' = "resolved"
    /\ UNCHANGED <<seeders, continueOnFailure, isSeeding, currentSeederName>>
    /\ UNCHANGED runVars
    /\ UNCHANGED <<rejected, events, hasCache, cache, steps, contexts, ctx, runs, entry, config>>

\* resolveDependencyOrder(seeders), called on the same array a first time
\* and again, each call executed on the arrays themselves: the caller's
\* array is afterwards what the statements of the call left in it.
ResolveInPlace(maxResolutions) ==
    /\ pc \in {"define", "resolved"}
    /\ Len(resolutions) < maxResolutions
    /\ LET call == resolveDependencyOrderInPlace(ArgumentHeap(seeders))
       IN /\ seeders' = ArgumentOf(call.heap)
          /\ resolution' = call.outcome
          /\ resolutions' = Append(resolutions, [input |-> seeders, left |-> seeders',
                                                 outcome |-> call.outcome])
    /\ pc' = "resolved"
    /\ UNCHANGED <<continueOnFailure, isSeeding, currentSeederName>>
    /\ UNCHANGED runVars
    /\ UNCHANGED <<rejected, events, hasCache, cache, steps, contexts, ctx, runs, entry, config>>

\* A variant of RunSeeders that does not invoke the context factory.
RunSeedersNoContext(cof) ==
    /\ pc = "define"
    /\ continueOnFailure' = cof
    /\ currentSeederName' = ""
    /\ entry' = "runSeeders"
    /\ config' = OptionalMembers
    /\ pc' = "onBeforeAll"
    /\ UNCHANGED <<seeders, resolution, isSeeding>>
    /\ UNCHANGED runVars
    /\ UNCHANGED <<rejected, events, hasCache, cache, steps, resolutions, contexts, ctx, runs>>

(***************************************************************************)
(* runSeeders / runSeedersCore                                             *)
(***************************************************************************)
\* runSeeders(seeders, options) of an instance: createStepRunner, then the
\* context factory is invoked and awaited.
RunSeeders(cof) ==
    /\ pc = "define"
    /\ continueOnFailure' = cof
    /\ currentSeederName' = ""
    /\ contexts' = contexts + 1
    /\ entry' = "runSeeders"
    /\ config' = OptionalMembers
    /\ pc' = "onBeforeAll"
    /\ UNCHANGED <<seeders, resolution, isSeeding>>
    /\ UNCHANGED runVars
    /\ UNCHANGED <<rejected, events, hasCache, cache, steps, resolutions, ctx, runs>>

\* runSeedersCore(seeders, config, options) called by the caller itself,
\* with a configuration of its own: context, and those of onBeforeAll,
\* onAfterAll and setSeederName (of a step runner of the caller) that
\* members names.  config.onBeforeAll is called and awaited when there is
\* one; no seeding state, and the factory is not invoked yet.
RunSeedersCore(cof, members) ==
    /\ pc = "define"
    /\ continueOnFailure' = cof
    /\ entry' = "runSeedersCore"
    /\ config' = members
    /\ events' = IF "onBeforeAll" \in members THEN Append(events, "onBeforeAll") ELSE events
    /\ pc' = "resolve"
    /\ UNCHANGED <<seeders, resolution, isSeeding, currentSeederName>>
    /\ UNCHANGED runVars
    /\ UNCHANGED <<rejected, hasCache, cache, steps, resolutions, contexts, ctx, runs>>

\* A variant of OnBeforeAll that leaves the seeding state alone.
OnBeforeAllNoFlag ==
    /\ pc = "onBeforeAll"
    /\ ctx' = Some(contexts)
    /\ pc' = "resolve"
    /\ UNCHANGED <<seeders, resolution, continueOnFailure, currentSeederName, isSeeding>>
    /\ UNCHANGED runVars
    /\ events' = Append(events, "onBeforeAll")
    /\ UNCHANGED <<rejected, hasCache, cache, steps, resolutions, contexts, runs, entry, config>>

\* The factory has resolved: ctx is the instance it returned, and
\* runSeedersCore is called.  internalConfig.onBeforeAll:
\* setSeedingActive(true), then the caller's hook is called and awaited.
OnBeforeAll ==
    /\ pc = "onBeforeAll"
    /\ ctx' = Some(contexts)
    /\ isSeeding' = TRUE
    /\ pc' = "resolve"
    /\ UNCHANGED <<seeders, resolution, continueOnFailure, currentSeederName>>
    /\ UNCHANGED runVars
    /\ events' = Append(events, "onBeforeAll")
    /\ UNCHANGED <<rejected, hasCache, cache, steps, resolutions, contexts, runs, entry, config>>

\* The hook has resolved.  try { orderedNames = resolveDependencyOrder(seeders) }
\* catch { ... }, the initialisation of results, outputs and failedSeeders,
\* then config.context() is called and awaited: the stored instance when
\* the run came through runSeeders, the caller's factory otherwise.
ResolveOrder ==
    /\ pc = "resolve"
    /\ resolution' = resolveDependencyOrder(seeders)
    /\ IF resolution'.kind = "order"
       THEN /\ orderedNames' = resolution'.order
            /\ results' = [k \in 1..Len(resolution'.order) |->
                             [name |-> resolution'.order[k], status |-> "pending",
                              durationMs |-> None, output |-> None, error |-> None]]
            /\ outputs' = <<>>
            /\ failedSeeders' = {}
            /\ contexts' = IF entry = "runSeedersCore" THEN contexts + 1 ELSE contexts
            /\ pc' = "context"
       ELSE /\ pc' = "onAfterAll"
            /\ UNCHANGED <<orderedNames, results, outputs, failedSeeders, contexts>>
    /\ UNCHANGED <<seeders, continueOnFailure, isSeeding, currentSeederName, i, calls, returned>>
    /\ events' = Append(events, "resolve")
    /\ UNCHANGED <<rejected, hasCache, cache, steps, resolutions, ctx, runs, entry, config>>

\* const ctx = await config.context() resolves.
CreateContext ==
    /\ pc = "context"
    /\ ctx' = IF entry = "runSeedersCore" THEN Some(contexts) ELSE ctx
    /\ i' = 1
    /\ pc' = "loop"
    /\ UNCHANGED <<seeders, resolution, continueOnFailure, isSeeding, currentSeederName,
                   orderedNames, results, outputs, failedSeeders, calls, returned>>
    /\ UNCHANGED <<rejected, events, hasCache, cache, steps, resolutions, contexts, runs, entry, config>>

\* The for loop has run past the last name.
LoopExit ==
    /\ pc = "loop"
    /\ i > Len(orderedNames)
    /\ pc' = "onAfterAll"
    /\ UNCHANGED <<seeders, resolution, continueOnFailure, isSeeding, currentSeederName>>
    /\ UNCHANGED runVars
    /\ UNCHANGED <<rejected, events, hasCache, cache, steps, resolutions, contexts, ctx, runs, entry, config>>

\* A variant of ContinueLoop that goes on with the same index.
ContinueLoopSameIndex ==
    /\ pc = "loop"
    /\ i <= Len(orderedNames)
    /\ \/ Falsy(orderedNames[i])
       \/ orderedNames[i] \notin DOMAIN seederMap(seeders)
    /\ UNCHANGED vars

\* if (!name || !result) continue ; if (!seeder) continue
ContinueLoop ==
    /\ pc = "loop"
    /\ i <= Len(orderedNames)
    /\ \/ Falsy(orderedNames[i])
       \/ orderedNames[i] \notin DOMAIN seederMap(seeders)
    /\ i' = i + 1
    /\ UNCHANGED <<seeders, pc, resolution, continueOnFailure, isSeeding, currentSeederName,
                   orderedNames, results, outputs, failedSeeders, calls, returned>>
    /\ UNCHANGED <<rejected, events, hasCache, cache, steps, resolutions, contexts, ctx, runs, entry, config>>

\* A variant of SkipSeeder that records an error on the skipped entry.
SkipSeederWithError ==
    /\ pc = "loop"
    /\ i <= Len(orderedNames)
    /\ ~Falsy(orderedNames[i])
    /\ orderedNames[i] \in DOMAIN seederMap(seeders)
    /\ continueOnFailure
    /\ HasFailedDep(seederMap(seeders)[orderedNames[i]], failedSeeders)
    /\ results' = [results EXCEPT ![i].status = "skipped",
                                  ![i].error = Some("Error(skipped)")]
    /\ failedSeeders' = failedSeeders \cup {orderedNames[i]}
    /\ i' = i + 1
    /\ UNCHANGED <<seeders, pc, resolution, continueOnFailure, isSeeding, currentSeederName,
                   orderedNames, outputs, calls, returned>>
    /\ UNCHANGED <<rejected, events, hasCache, cache, steps, resolutions, contexts, ctx, runs, entry, config>>

\* if (continueOnFailure) { if (hasFailedDep) { status = 'skipped'; failedSeeders.add; continue } }
SkipSeeder ==
    /\ pc = "loop"
    /\ i <= Len(orderedNames)
    /\ ~Falsy(orderedNames[i])
    /\ orderedNames[i] \in DOMAIN seederMap(seeders)
    /\ continueOnFailure
    /\ HasFailedDep(seederMap(seeders)[orderedNames[i]], failedSeeders)
    /\ results' = [results EXCEPT ![i].status = "skipped"]
    /\ failedSeeders' = failedSeeders \cup {orderedNames[i]}
    /\ i' = i + 1
    /\ UNCHANGED <<seeders, pc, resolution, continueOnFailure, isSeeding, currentSeederName,
                   orderedNames, outputs, calls, returned>>
    /\ UNCHANGED <<rejected, events, hasCache, cache, steps, resolutions, contexts, ctx, runs, entry, config>>

\* A variant of StartSeeder that calls seeder.run(ctx, deps) without awaiting
\* it: the loop goes on to the next name at once.
StartSeederNoAwait ==
    /\ pc = "loop"
    /\ i <= Len(orderedNames)
    /\ ~Falsy(orderedNames[i])
    /\ orderedNames[i] \in DOMAIN seederMap(seeders)
    /\ ~(continueOnFailure /\ HasFailedDep(seederMap(seeders)[orderedNames[i]], failedSeeders))
    /\ results' = [results EXCEPT ![i].status = "running"]
    /\ currentSeederName' = IF "setSeederName" \in config THEN orderedNames[i]
                            ELSE currentSeederName
    /\ calls' = Append(calls, [name |-> orderedNames[i],
                               deps |-> BuildDeps(seederMap(seeders)[orderedNames[i]], outputs),
                               ctx |-> ctx, outcome |-> "running", value |-> None])
    /\ pc' = "loop"
    /\ i' = i + 1
    /\ UNCHANGED <<seeders, resolution, continueOnFailure, isSeeding,
                   orderedNames, outputs, failedSeeders, returned>>
    /\ events' = Append(events, "run")
    /\ UNCHANGED <<rejected, hasCache, cache, steps, resolutions, contexts, ctx, runs, entry, config>>

\* A variant of StartSeeder that does not call config.setSeederName(name).
StartSeederNoName ==
    /\ pc = "loop"
    /\ i <= Len(orderedNames)
    /\ ~Falsy(orderedNames[i])
    /\ orderedNames[i] \in DOMAIN seederMap(seeders)
    /\ ~(continueOnFailure /\ HasFailedDep(seederMap(seeders)[orderedNames[i]], failedSeeders))
    /\ results' = [results EXCEPT ![i].status = "running"]
    /\ calls' = Append(calls, [name |-> orderedNames[i],
                               deps |-> BuildDeps(seederMap(seeders)[orderedNames[i]], outputs),
                               ctx |-> ctx, outcome |-> "running", value |-> None])
    /\ pc' = "running"
    /\ UNCHANGED <<seeders, resolution, continueOnFailure, isSeeding, currentSeederName,
                   orderedNames, outputs, failedSeeders, i, returned>>
    /\ events' = Append(events, "run")
    /\ UNCHANGED <<rejected, hasCache, cache, steps, resolutions, contexts, ctx, runs, entry, config>>

\* status = 'running'; config.setSeederName(name) when the configuration has
\* one, as internalConfig has; build deps; seeder.run(ctx, deps) is called.
StartSeeder ==
    /\ pc = "loop"
    /\ i <= Len(orderedNames)
    /\ ~Falsy(orderedNames[i])
    /\ orderedNames[i] \in DOMAIN seederMap(seeders)
    /\ ~(continueOnFailure /\ HasFailedDep(seederMap(seeders)[orderedNames[i]], failedSeeders))
    /\ results' = [results EXCEPT ![i].status = "running"]
    /\ currentSeederName' = IF "setSeederName" \in config THEN orderedNames[i]
                            ELSE currentSeederName
    /\ calls' = Append(calls, [name |-> orderedNames[i],
                               deps |-> BuildDeps(seederMap(seeders)[orderedNames[i]], outputs),
                               ctx |-> ctx, outcome |-> "running", value |-> None])
    /\ pc' = "running"
    /\ UNCHANGED <<seeders, resolution, continueOnFailure, isSeeding,
                   orderedNames, outputs, failedSeeders, i, returned>>
    /\ events' = Append(events, "run")
    /\ UNCHANGED <<rejected, hasCache, cache, steps, resolutions, contexts, ctx, runs, entry, config>>

\* const output = await seeder.run(ctx, deps) resolves.
SeederResolves(output, elapsed) ==
    /\ pc = "running"
    /\ calls' = [calls EXCEPT ![Len(calls)].outcome = "resolved", ![Len(calls)].value = Some(output)]
    /\ outputs' = OutputsSet(outputs, orderedNames[i], output)
    /\ results' = [results EXCEPT ![i].status = "completed",
                                  ![i].durationMs = Some(elapsed),
                                  ![i].output = Some(output)]
    /\ i' = i + 1
    /\ pc' = "loop"
    /\ UNCHANGED <<seeders, resolution, continueOnFailure, isSeeding, currentSeederName,
                   orderedNames, failedSeeders, returned>>
    /\ UNCHANGED <<rejected, events, hasCache, cache, steps, resolutions, contexts, ctx, runs, entry, config>>

\* A variant of SeederRejects that marks every entry of the ledger failed.
SeederRejectsFailsAll(error, elapsed) ==
    /\ pc = "running"
    /\ calls' = [calls EXCEPT ![Len(calls)].outcome = "rejected", ![Len(calls)].value = Some(error)]
    /\ results' = [k \in 1..Len(results) |->
                     IF k = i THEN [results[k] EXCEPT !.status = "failed",
                                                      !.durationMs = Some(elapsed),
                                                      !.error = Some(ToError(error))]
                     ELSE [results[k] EXCEPT !.status = "failed"]]
    /\ failedSeeders' = failedSeeders \cup {orderedNames[i]}
    /\ IF ~continueOnFailure
       THEN pc' = "onAfterAll" /\ i' = i
       ELSE pc' = "loop" /\ i' = i + 1
    /\ UNCHANGED <<seeders, resolution, continueOnFailure, isSeeding, currentSeederName,
                   orderedNames, outputs, returned>>
    /\ UNCHANGED <<rejected, events, hasCache, cache, steps, resolutions, contexts, ctx, runs, entry, config>>

\* await seeder.run(ctx, deps) rejects: the catch block.  When String(error)
\* throws, the statements after it are not run and runSeedersCore rejects.
SeederRejects(error, elapsed) ==
    /\ pc = "running"
    /\ calls' = [calls EXCEPT ![Len(calls)].outcome = "rejected", ![Len(calls)].value = Some(error)]
    /\ IF IsError(error) \/ Stringable(error)
       THEN /\ results' = [results EXCEPT ![i].status = "failed",
                                          ![i].durationMs = Some(elapsed),
                                          ![i].error = Some(ToError(error))]
            /\ failedSeeders' = failedSeeders \cup {orderedNames[i]}
            /\ IF ~continueOnFailure
               THEN pc' = "onAfterAll" /\ i' = i
               ELSE pc' = "loop" /\ i' = i + 1
            /\ UNCHANGED rejected
       ELSE /\ results' = [results EXCEPT ![i].status = "failed",
                                          ![i].durationMs = Some(elapsed)]
            /\ rejected' = Some(TypeError)
            /\ pc' = "done"
            /\ UNCHANGED <<failedSeeders, i>>
    /\ UNCHANGED <<seeders, resolution, continueOnFailure, isSeeding, currentSeederName,
                   orderedNames, outputs, returned>>
    /\ UNCHANGED <<events, hasCache, cache, steps, resolutions, contexts, ctx, runs, entry, config>>

\* if (config.onAfterAll) await config.onAfterAll(), after the loop or in
\* the catch of the resolution.  internalConfig.onAfterAll:
\* setSeedingActive(false), then the caller's hook; a caller's own
\* configuration has the hook only, or none.
OnAfterAll ==
    /\ pc = "onAfterAll"
    /\ isSeeding' = IF entry = "runSeeders" THEN FALSE ELSE isSeeding
    /\ pc' = "return"
    /\ UNCHANGED <<seeders, resolution, continueOnFailure, currentSeederName>>
    /\ UNCHANGED runVars
    /\ events' = IF "onAfterAll" \in config THEN Append(events, "onAfterAll") ELSE events
    /\ UNCHANGED <<rejected, hasCache, cache, steps, resolutions, contexts, ctx, runs, entry, config>>

\* A variant of ReturnResults that ends every run with the common return
\* statement, the one after the loop.
ReturnResultsCommon ==
    /\ pc = "return"
    /\ returned' = Some(RunResult(results, FailedCount(results) = 0))
    /\ pc' = "done"
    /\ UNCHANGED <<seeders, resolution, continueOnFailure, isSeeding, currentSeederName,
                   orderedNames, results, outputs, failedSeeders, i, calls>>
    /\ UNCHANGED <<rejected, events, hasCache, cache, steps, resolutions, contexts, ctx, runs, entry, config>>

\* A variant of ReturnResults that returns the entries of the seeders reached only.
ReturnResultsReachedOnly ==
    /\ pc = "return"
    /\ returned' = IF resolution.kind = "order"
                   THEN Some(RunResult(SelectSeq(results, LAMBDA r : r.status # "pending"),
                                        FailedCount(results) = 0))
                   ELSE Some(RunResult(<<>>, FALSE))
    /\ pc' = "done"
    /\ UNCHANGED <<seeders, resolution, continueOnFailure, isSeeding, currentSeederName,
                   orderedNames, results, outputs, failedSeeders, i, calls>>
    /\ UNCHANGED <<rejected, events, hasCache, cache, steps, resolutions, contexts, ctx, runs, entry, config>>

\* The hook has resolved: return { results, success: failed === 0 }, or
\* return { results: [], success: false } in the catch of the resolution.
ReturnResults ==
    /\ pc = "return"
    /\ returned' = IF resolution.kind = "order"
                   THEN Some(RunResult(results, FailedCount(results) = 0))
                   ELSE Some(RunResult(<<>>, FALSE))
    /\ pc' = "done"
    /\ UNCHANGED <<seeders, resolution, continueOnFailure, isSeeding, currentSeederName,
                   orderedNames, results, outputs, failedSeeders, i, calls>>
    /\ UNCHANGED <<rejected, events, hasCache, cache, steps, resolutions, contexts, ctx, runs, entry, config>>

\* Arrays of seeders handed to resolveDependencyOrder.
Next ==
    \/ \E name \in SeederNames, dependsOn \in SeqsUpTo(DepNames, MaxEdges - EdgeCount(seeders)) :
          DefineSeeder(name, dependsOn, MaxSeeders, MaxEdges)
    \/ Resolve(1)

Spec == Init /\ [][Next]_vars

\* Arrays of seeders handed to resolveDependencyOrder again and again.
RepeatNext ==
    \/ \E name \in SeederNames,
          dependsOn \in SeqsUpTo(DepNames, MaxRepeatEdges - EdgeCount(seeders)) :
          DefineSeeder(name, dependsOn, MaxRepeatSeeders, MaxRepeatEdges)
    \/ ResolveInPlace(MaxResolutions)

RepeatSpec == Init /\ [][RepeatNext]_vars

\* Arrays of seeders handed to runSeeders, and the run.
RunNext ==
    \/ \E name \in SeederNames,
          dependsOn \in SeqsUpTo(DepNames, MaxRunEdges - EdgeCount(seeders)) :
          DefineSeeder(name, dependsOn, MaxRunSeeders, MaxRunEdges)
    \/ \E cof \in BOOLEAN : RunSeeders(cof)
    \/ OnBeforeAll
    \/ ResolveOrder
    \/ CreateContext
    \/ LoopExit
    \/ ContinueLoop
    \/ SkipSeeder
    \/ StartSeeder
    \/ \E output \in Outputs, elapsed \in Durations : SeederResolves(output, elapsed)
    \/ \E error \in Thrown, elapsed \in Durations : SeederRejects(error, elapsed)
    \/ OnAfterAll
    \/ ReturnResults

RunSpec == Init /\ [][RunNext]_vars

(***************************************************************************)
(* Runs in which the callbacks of the caller raise                         *)
(***************************************************************************)
\* What a callback of the configuration raises.
HookError == "Error(hook)"

\* runSeeders: await config.context(baseContext) rejects, before
\* runSeedersCore is called.
RunSeedersContextRaises ==
    /\ pc = "onBeforeAll"
    /\ rejected' = Some(HookError)
    /\ pc' = "done"
    /\ UNCHANGED <<seeders, resolution, continueOnFailure, isSeeding, currentSeederName>>
    /\ UNCHANGED runVars
    /\ UNCHANGED <<events, hasCache, cache, steps, resolutions, contexts, ctx, runs, entry, config>>

\* await config.onBeforeAll() rejects; runSeedersCore does not catch it,
\* and the seeding state stays as internalConfig.onBeforeAll set it.
OnBeforeAllRaises ==
    /\ pc = "resolve"
    /\ "onBeforeAll" \in config
    /\ rejected' = Some(HookError)
    /\ pc' = "done"
    /\ UNCHANGED <<seeders, resolution, continueOnFailure, isSeeding, currentSeederName>>
    /\ UNCHANGED runVars
    /\ UNCHANGED <<events, hasCache, cache, steps, resolutions, contexts, ctx, runs, entry, config>>

\* await config.onAfterAll() rejects: nothing is returned.
OnAfterAllRaises ==
    /\ pc = "return"
    /\ "onAfterAll" \in config
    /\ rejected' = Some(HookError)
    /\ pc' = "done"
    /\ UNCHANGED <<seeders, resolution, continueOnFailure, isSeeding, currentSeederName>>
    /\ UNCHANGED runVars
    /\ UNCHANGED <<events, hasCache, cache, steps, resolutions, contexts, ctx, runs, entry, config>>

\* const ctx = await config.context() rejects, the factory being the
\* caller's own: runSeedersCore does not catch it.
CreateContextRaises ==
    /\ pc = "context"
    /\ entry = "runSeedersCore"
    /\ rejected' = Some(HookError)
    /\ pc' = "done"
    /\ UNCHANGED <<seeders, resolution, continueOnFailure, isSeeding, currentSeederName>>
    /\ UNCHANGED runVars
    /\ UNCHANGED <<events, hasCache, cache, steps, resolutions, contexts, ctx, runs, entry, config>>

\* Runs of runSeeders with callbacks that may raise and run functions that
\* may reject with any value.
FaultNext ==
    \/ \E name \in SeederNames,
          dependsOn \in SeqsUpTo(DepNames, MaxRunEdges - EdgeCount(seeders)) :
          DefineSeeder(name, dependsOn, MaxRunSeeders, MaxRunEdges)
    \/ \E cof \in BOOLEAN : RunSeeders(cof)
    \/ RunSeedersContextRaises
    \/ OnBeforeAll
    \/ OnBeforeAllRaises
    \/ ResolveOrder
    \/ CreateContext
    \/ LoopExit
    \/ ContinueLoop
    \/ SkipSeeder
    \/ StartSeeder
    \/ \E output \in Outputs, elapsed \in Durations : SeederResolves(output, elapsed)
    \/ \E error \in ThrownAny, elapsed \in Durations : SeederRejects(error, elapsed)
    \/ OnAfterAll
    \/ ReturnResults
    \/ OnAfterAllRaises

FaultSpec == Init /\ [][FaultNext]_vars

(***************************************************************************)
(* runSeedersCore called directly                                          *)
(***************************************************************************)
\* The arrays a run is started on, through runSeeders of an instance or
\* through runSeedersCore itself, are within these bounds.
MaxCoreSeeders == 2
MaxCoreEdges == 1

CoreNext ==
    \/ \E name \in SeederNames,
          dependsOn \in SeqsUpTo(DepNames, MaxCoreEdges - EdgeCount(seeders)) :
          DefineSeeder(name, dependsOn, MaxCoreSeeders, MaxCoreEdges)
    \/ \E cof \in BOOLEAN : RunSeeders(cof)
    \/ \E cof \in BOOLEAN, members \in SUBSET OptionalMembers : RunSeedersCore(cof, members)
    \/ OnBeforeAll
    \/ ResolveOrder
    \/ CreateContext
    \/ CreateContextRaises
    \/ LoopExit
    \/ ContinueLoop
    \/ SkipSeeder
    \/ StartSeeder
    \/ \E output \in Outputs, elapsed \in Durations : SeederResolves(output, elapsed)
    \/ \E error \in Thrown, elapsed \in Durations : SeederRejects(error, elapsed)
    \/ OnAfterAll
    \/ ReturnResults

CoreSpec == Init /\ [][CoreNext]_vars

(***************************************************************************)
(* Seeders named after a property of Object.prototype                      *)
(***************************************************************************)
MaxProtoSeeders == 2
MaxProtoEdges == 1

\* The names of these arrays: the empty one, __proto__ and an ordinary one.
ProtoNames == {"", ProtoName, "b"}

ProtoNext ==
    \/ \E name \in ProtoNames,
          dependsOn \in SeqsUpTo(ProtoNames, MaxProtoEdges - EdgeCount(seeders)) :
          DefineSeeder(name, dependsOn, MaxProtoSeeders, MaxProtoEdges)
    \/ \E cof \in BOOLEAN : RunSeeders(cof)
    \/ OnBeforeAll
    \/ ResolveOrder
    \/ CreateContext
    \/ LoopExit
    \/ ContinueLoop
    \/ SkipSeeder
    \/ StartSeeder
    \/ \E output \in Outputs, elapsed \in Durations : SeederResolves(output, elapsed)
    \/ \E error \in Thrown, elapsed \in Durations : SeederRejects(error, elapsed)
    \/ OnAfterAll
    \/ ReturnResults

ProtoSpec == Init /\ [][ProtoNext]_vars

(***************************************************************************)
(* Runs under the scheduling of the event loop                             *)
(***************************************************************************)
\* runSeeders is applied to arrays within these bounds when the progress
\* of the run is followed.
MaxLiveSeeders == 2
MaxLiveEdges == 1

\* The steps runSeedersCore takes by itself: once the promise it awaits
\* has settled, the event loop runs the continuation.
RunProgress ==
    \/ RunSeedersContextRaises
    \/ OnBeforeAll
    \/ OnBeforeAllRaises
    \/ ResolveOrder
    \/ CreateContext
    \/ LoopExit
    \/ ContinueLoop
    \/ SkipSeeder
    \/ StartSeeder
    \/ OnAfterAll
    \/ ReturnResults
    \/ OnAfterAllRaises

\* The run function the loop awaits settles, one way or the other.
SeederSettles ==
    \/ \E output \in Outputs, elapsed \in Durations : SeederResolves(output, elapsed)
    \/ \E error \in ThrownAny, elapsed \in Durations : SeederRejects(error, elapsed)

LiveNext ==
    \/ \E name \in SeederNames,
          dependsOn \in SeqsUpTo(DepNames, MaxLiveEdges - EdgeCount(seeders)) :
          DefineSeeder(name, dependsOn, MaxLiveSeeders, MaxLiveEdges)
    \/ \E cof \in BOOLEAN : RunSeeders(cof)
    \/ RunProgress
    \/ SeederSettles

\* Runs in which every callback and every invoked run function settles.
LiveSpec ==
    /\ Init
    /\ [][LiveNext]_vars
    /\ WF_vars(RunProgress)
    /\ WF_vars(SeederSettles)

(***************************************************************************)
(* runSeeders invocations that overlap in one process                      *)
(*                                                                         *)
(* Each invocation has its own array, ledger and loop index; isSeeding is  *)
(* the one module-level variable of seeding-state.ts they all write.       *)
(* Options are omitted: continueOnFailure is false.                        *)
(***************************************************************************)
\* The arrays the overlapping invocations are given.
OverlapArrays ==
    { <<>>,
      <<Seeder("a", <<>>)>>,
      <<Seeder("", <<>>)>>,
      <<Seeder("a", <<>>), Seeder("b", <<"a">>)>>,
      <<Seeder("a", <<"a">>)>> }

\* What an overlapping invocation leaves alone of the state of the run
\* followed in detail.
soloVars == <<seeders, pc, resolution, continueOnFailure, orderedNames, results, outputs,
              failedSeeders, i, currentSeederName, calls, returned, rejected, events,
              hasCache, cache, steps, resolutions, ctx, entry, config>>

\* runSeeders(seeders) of invocation r: createStepRunner, the context,
\* then runSeedersCore up to its first await.
RunSeedersOverlapping(r, array) ==
    /\ runs[r].pc = "idle"
    /\ runs' = [runs EXCEPT ![r].pc = "onBeforeAll", ![r].seeders = array]
    /\ contexts' = contexts + 1
    /\ UNCHANGED isSeeding
    /\ UNCHANGED soloVars

\* internalConfig.onBeforeAll of invocation r: setSeedingActive(true)
OnBeforeAllOverlapping(r) ==
    /\ runs[r].pc = "onBeforeAll"
    /\ isSeeding' = TRUE
    /\ runs' = [runs EXCEPT ![r].pc = "resolve"]
    /\ UNCHANGED contexts
    /\ UNCHANGED soloVars

\* orderedNames = resolveDependencyOrder(seeders), in try/catch, and the
\* ledger of pending entries
ResolveOrderOverlapping(r) ==
    /\ runs[r].pc = "resolve"
    /\ LET res == resolveDependencyOrder(runs[r].seeders)
       IN IF res.kind = "order"
          THEN runs' = [runs EXCEPT ![r].pc = "loop",
                                    ![r].orderedNames = res.order,
                                    ![r].results = [k \in 1..Len(res.order) |-> "pending"],
                                    ![r].i = 1]
          ELSE runs' = [runs EXCEPT ![r].pc = "onAfterAll"]
    /\ UNCHANGED <<isSeeding, contexts>>
    /\ UNCHANGED soloVars

\* The for loop of invocation r has run past the last name.
LoopExitOverlapping(r) ==
    /\ runs[r].pc = "loop"
    /\ runs[r].i > Len(runs[r].orderedNames)
    /\ runs' = [runs EXCEPT ![r].pc = "onAfterAll"]
    /\ UNCHANGED <<isSeeding, contexts>>
    /\ UNCHANGED soloVars

\* if (!name || !result) continue
ContinueLoopOverlapping(r) ==
    /\ runs[r].pc = "loop"
    /\ runs[r].i <= Len(runs[r].orderedNames)
    /\ Falsy(runs[r].orderedNames[runs[r].i])
    /\ runs' = [runs EXCEPT ![r].i = @ + 1]
    /\ UNCHANGED <<isSeeding, contexts>>
    /\ UNCHANGED soloVars

\* result.status = 'running' and await seeder.run(ctx, deps): the run
\* function of invocation r's current seeder executes.
StartSeederOverlapping(r) ==
    /\ runs[r].pc = "loop"
    /\ runs[r].i <= Len(runs[r].orderedNames)
    /\ ~Falsy(runs[r].orderedNames[runs[r].i])
    /\ runs' = [runs EXCEPT ![r].pc = "running", ![r].results[runs[r].i] = "running"]
    /\ UNCHANGED <<isSeeding, contexts>>
    /\ UNCHANGED soloVars

\* The run function resolves: status completed, next name.
SeederResolvesOverlapping(r) ==
    /\ runs[r].pc = "running"
    /\ runs' = [runs EXCEPT ![r].pc = "loop", ![r].results[runs[r].i] = "completed",
                            ![r].i = @ + 1]
    /\ UNCHANGED <<isSeeding, contexts>>
    /\ UNCHANGED soloVars

\* The run function rejects: status failed, and break; or, when
\* String(error) throws in the catch block, the invocation rejects and
\* its onAfterAll is never called.
SeederRejectsOverlapping(r, error) ==
    /\ runs[r].pc = "running"
    /\ runs' = [runs EXCEPT ![r].pc = IF IsError(error) \/ Stringable(error)
                                      THEN "onAfterAll" ELSE "rejected",
                            ![r].results[runs[r].i] = "failed"]
    /\ UNCHANGED <<isSeeding, contexts>>
    /\ UNCHANGED soloVars

\* internalConfig.onAfterAll of invocation r: setSeedingActive(false), and
\* the caller's hook is awaited.
OnAfterAllOverlapping(r) ==
    /\ runs[r].pc = "onAfterAll"
    /\ isSeeding' = FALSE
    /\ runs' = [runs EXCEPT ![r].pc = "return"]
    /\ UNCHANGED contexts
    /\ UNCHANGED soloVars

\* Invocation r returns its ledger.
ReturnResultsOverlapping(r) ==
    /\ runs[r].pc = "return"
    /\ runs' = [runs EXCEPT ![r].pc = "done"]
    /\ UNCHANGED <<isSeeding, contexts>>
    /\ UNCHANGED soloVars

OverlapNext ==
    \/ \E r \in Runs, array \in OverlapArrays : RunSeedersOverlapping(r, array)
    \/ \E r \in Runs : OnBeforeAllOverlapping(r)
    \/ \E r \in Runs : ResolveOrderOverlapping(r)
    \/ \E r \in Runs : LoopExitOverlapping(r)
    \/ \E r \in Runs : ContinueLoopOverlapping(r)
    \/ \E r \in Runs : StartSeederOverlapping(r)
    \/ \E r \in Runs : SeederResolvesOverlapping(r)
    \/ \E r \in Runs, error \in ThrownAny : SeederRejectsOverlapping(r, error)
    \/ \E r \in Runs : OnAfterAllOverlapping(r)
    \/ \E r \in Runs : ReturnResultsOverlapping(r)

OverlapSpec == Init /\ [][OverlapNext]_vars

(***************************************************************************)
(* step.ts: the step runner                                                *)
(***************************************************************************)
\* The number of calls of step in one behaviour.
MaxSteps == 2

\* The characters the class a-z0-9 holds, of those step descriptions use.
Alnum == {"a", "b", "1"}

\* Step descriptions, as sequences of characters.
Descriptions == {<<"A", "b", "!">>, <<"a", " ", "!", "b">>}

\* What the function of a step resolves with, undefined included.
StepValues == {"v1", Undefined}
\* What the function of a step rejects with.
StepErrors == {"Error(step)"}

\* String.prototype.toLowerCase, one character at a time.
ToLowerCase(c) == CASE c = "A" -> "a" [] c = "B" -> "b" [] OTHER -> c

RECURSIVE ReplaceNonAlnum(_, _)
\* .replace(/[^a-z0-9]+/g, '-'): every maximal run of characters outside
\* a-z0-9 becomes one hyphen.  inRun says the previous character was one.
ReplaceNonAlnum(s, inRun) ==
    IF s = <<>> THEN <<>>
    ELSE IF Head(s) \in Alnum THEN <<Head(s)>> \o ReplaceNonAlnum(Tail(s), FALSE)
    ELSE IF inRun THEN ReplaceNonAlnum(Tail(s), TRUE)
    ELSE <<"-">> \o ReplaceNonAlnum(Tail(s), TRUE)

\* .replace(/^-|-$/g, ''): a hyphen at the start and one at the end go.
TrimHyphens(s) ==
    LET t == IF s # <<>> /\ Head(s) = "-" THEN Tail(s) ELSE s
    IN IF t # <<>> /\ t[Len(t)] = "-" THEN SubSeq(t, 1, Len(t) - 1) ELSE t

RECURSIVE Join(_)
\* The string made of the characters of s.
Join(s) == IF s = <<>> THEN "" ELSE Head(s) \o Join(Tail(s))

\* slugifiedDescription
Slugify(description) ==
    Join(TrimHyphens(ReplaceNonAlnum([k \in 1..Len(description) |-> ToLowerCase(description[k])],
                                     FALSE)))

\* A variant of CacheKey that leaves the seeder name out.
CacheKeyUnscoped(seederName, description) == Slugify(description)

\* cacheKey = currentSeederName ? `${currentSeederName}:${slug}` : slug
CacheKey(seederName, description) ==
    IF seederName # "" THEN seederName \o ":" \o Slugify(description)
    ELSE Slugify(description)

\* cache.get(key) of a cache that keeps what is set, as a Map does.
CacheGet(store, key) == IF key \in DOMAIN store THEN store[key] ELSE Undefined

\* cache.set(key, value) of such a cache.
CacheSet(store, key, value) ==
    [k \in DOMAIN store \cup {key} |-> IF k = key THEN value ELSE store[k]]

\* createStepRunner(config): config.cache given or not, config.seederName ?? ''.
StepInit ==
    /\ seeders = <<>>
    /\ pc = "step"
    /\ resolution = Unresolved
    /\ continueOnFailure = FALSE
    /\ orderedNames = <<>>
    /\ results = <<>>
    /\ outputs = <<>>
    /\ failedSeeders = {}
    /\ i = 1
    /\ isSeeding = FALSE
    /\ currentSeederName \in SeederNames
    /\ calls = <<>>
    /\ returned = None
    /\ rejected = None
    /\ events = <<>>
    /\ hasCache \in BOOLEAN
    /\ cache = <<>>
    /\ steps = <<>>
    /\ resolutions = <<>>
    /\ contexts = 0
    /\ ctx = None
    /\ runs = NoRuns
    /\ entry = NotStarted
    /\ config = {}

engineVars == <<seeders, resolution, continueOnFailure, orderedNames, results, outputs,
                failedSeeders, i, isSeeding, calls, returned, rejected, events,
                resolutions, contexts, ctx, runs, entry, config>>

\* The calls of step that have neither returned nor raised.
InFlight == {k \in 1..Len(steps) : steps[k].outcome = "running"}

\* The record of one call of step: at is the promise the call awaits
\* (cache.get, fn, cache.set) or done, got what cache.get returned,
\* fnSettled what fn resolved or rejected with, set what cache.set was
\* called with, when they were called; alone says no call was in flight
\* when this one was made.
StepCall(description, useCache, key, got, fnCalled, at) ==
    [seederName |-> currentSeederName, description |-> description, useCache |-> useCache,
     cacheKey |-> key, got |-> got, fnCalled |-> fnCalled, fnSettled |-> None,
     set |-> None, outcome |-> "running", value |-> None, at |-> at, alone |-> InFlight = {}]

\* setSeederName(name), at any time: the calls in flight keep the key they
\* computed.
SetSeederName(name) ==
    /\ pc = "step"
    /\ currentSeederName' = name
    /\ UNCHANGED <<pc, hasCache, cache, steps>>
    /\ UNCHANGED engineVars

\* step(description, fn, { useCache }) up to its first await: the key from
\* the current seeder name; then with useCache and a cache, cache.get is
\* called and awaited, otherwise fn is.  Earlier calls may be in flight.
StepBegin(description, useCache) ==
    /\ pc = "step"
    /\ Len(steps) < MaxSteps
    /\ LET key == CacheKey(currentSeederName, description)
       IN steps' = Append(steps,
                          IF useCache /\ hasCache
                          THEN StepCall(description, useCache, key, Some(CacheGet(cache, key)),
                                        FALSE, "get")
                          ELSE StepCall(description, useCache, key, None, TRUE, "fn"))
    /\ UNCHANGED <<pc, currentSeederName, hasCache, cache>>
    /\ UNCHANGED engineVars

\* A variant of CacheGetResolves that never looks at what cache.get
\* returned.
CacheGetResolvesIgnored(k) ==
    /\ pc = "step"
    /\ steps[k].at = "get"
    /\ steps' = [steps EXCEPT ![k].fnCalled = TRUE, ![k].at = "fn"]
    /\ UNCHANGED <<pc, currentSeederName, hasCache, cache>>
    /\ UNCHANGED engineVars

\* cached = await cache.get(cacheKey) resumes: a defined value is
\* returned, otherwise fn is called and awaited.
CacheGetResolves(k) ==
    /\ pc = "step"
    /\ steps[k].at = "get"
    /\ steps' = IF steps[k].got # Some(Undefined)
                THEN [steps EXCEPT ![k].outcome = "returned", ![k].value = steps[k].got,
                                   ![k].at = "done"]
                ELSE [steps EXCEPT ![k].fnCalled = TRUE, ![k].at = "fn"]
    /\ UNCHANGED <<pc, currentSeederName, hasCache, cache>>
    /\ UNCHANGED engineVars

\* A variant of StepFnResolves that returns the result without storing it.
StepFnResolvesNoSet(k, result) ==
    /\ pc = "step"
    /\ steps[k].at = "fn"
    /\ steps' = [steps EXCEPT ![k].fnSettled = Some(result), ![k].outcome = "returned",
                              ![k].value = Some(result), ![k].at = "done"]
    /\ UNCHANGED <<pc, currentSeederName, hasCache, cache>>
    /\ UNCHANGED engineVars

\* result = await fn() resumes with a result: with useCache and a cache,
\* cache.set(cacheKey, result) is called and awaited; otherwise the result
\* is returned.
StepFnResolves(k, result) ==
    /\ pc = "step"
    /\ steps[k].at = "fn"
    /\ IF steps[k].useCache /\ hasCache
       THEN /\ cache' = CacheSet(cache, steps[k].cacheKey, result)
            /\ steps' = [steps EXCEPT ![k].fnSettled = Some(result), ![k].set = Some(result),
                                      ![k].at = "set"]
       ELSE /\ cache' = cache
            /\ steps' = [steps EXCEPT ![k].fnSettled = Some(result), ![k].outcome = "returned",
                                      ![k].value = Some(result), ![k].at = "done"]
    /\ UNCHANGED <<pc, currentSeederName, hasCache>>
    /\ UNCHANGED engineVars

\* await cache.set(cacheKey, result) resumes: return result.
CacheSetResolves(k) ==
    /\ pc = "step"
    /\ steps[k].at = "set"
    /\ steps' = [steps EXCEPT ![k].outcome = "returned", ![k].value = steps[k].fnSettled,
                              ![k].at = "done"]
    /\ UNCHANGED <<pc, currentSeederName, hasCache, cache>>
    /\ UNCHANGED engineVars

\* await fn() rejects: the catch block logs and throws the error again.
StepFnRejects(k, error) ==
    /\ pc = "step"
    /\ steps[k].at = "fn"
    /\ steps' = [steps EXCEPT ![k].fnSettled = Some(error), ![k].outcome = "raised",
                              ![k].value = Some(error), ![k].at = "done"]
    /\ UNCHANGED <<pc, currentSeederName, hasCache, cache>>
    /\ UNCHANGED engineVars

\* The calls of one step runner, one after another or several in flight:
\* each resumes, in any order, when the promise it awaits settles.  The
\* behaviours end with the last call of step: a name set after it is read
\* by no call.
StepNext ==
    \/ Len(steps) < MaxSteps /\ \E name \in SeederNames : SetSeederName(name)
    \/ \E description \in Descriptions, useCache \in BOOLEAN : StepBegin(description, useCache)
    \/ \E k \in 1..Len(steps) : CacheGetResolves(k)
    \/ \E k \in 1..Len(steps), result \in StepValues : StepFnResolves(k, result)
    \/ \E k \in 1..Len(steps) : CacheSetResolves(k)
    \/ \E k \in 1..Len(steps), error \in StepErrors : StepFnRejects(k, error)

StepSpec == StepInit /\ [][StepNext]_vars

(***************************************************************************)
(* Vocabulary of the properties                                            *)
(***************************************************************************)
\* No two seeders of the array carry the same name.
UniqueNames(ss) == \A j, k \in 1..Len(ss) : j # k => ss[j].name # ss[k].name

\* Every declared dependency is the name of a seeder of the array.
NoMissingDependency(ss) ==
    \A k \in 1..Len(ss) : \A j \in 1..Len(ss[k].dependsOn) :
        \E m \in 1..Len(ss) : ss[m].name = ss[k].dependsOn[j]

\* The names some seeder called n declares as dependencies.
DirectDeps(ss, n) == UNION {Range(ss[k].dependsOn) : k \in {m \in 1..Len(ss) : ss[m].name = n}}

RECURSIVE DepsClosure(_, _)
\* The least set that holds S and the direct dependencies of its members.
DepsClosure(ss, S) ==
    LET more == S \cup UNION {DirectDeps(ss, n) : n \in S}
    IN IF more = S THEN S ELSE DepsClosure(ss, more)

\* The names n depends on, directly or through other seeders.
TransitiveDeps(ss, n) == DepsClosure(ss, DirectDeps(ss, n))

\* The dependency graph holds a cycle (a seeder listing itself included).
Cyclic(ss) == \E k \in 1..Len(ss) : ss[k].name \in TransitiveDeps(ss, ss[k].name)

\* The positions of name n in the sequence of names s.
Positions(s, n) == {k \in 1..Len(s) : s[k] = n}

\* A direct resolveDependencyOrder call has returned or thrown.
Resolved == pc = "resolved"

\* C1: for an acyclic array with unique names and no missing dependency,
\* resolveDependencyOrder returns an order in which every seeder comes
\* strictly after each dependency it declares.
C1_DependenciesFirst ==
    (Resolved /\ UniqueNames(seeders) /\ NoMissingDependency(seeders) /\ ~Cyclic(seeders))
    => /\ resolution.kind = "order"
       /\ \A k \in 1..Len(seeders) : \A d \in Range(seeders[k].dependsOn) :
            /\ Positions(resolution.order, d) # {}
            /\ Positions(resolution.order, seeders[k].name) # {}
            /\ \A pd \in Positions(resolution.order, d) :
                 \A pu \in Positions(resolution.order, seeders[k].name) : pd < pu

\* Three seeders, the first-listed one depending on both others, which
\* depend on one another: the order has to depart from the array's.
C1_Witness ==
    /\ Resolved /\ UniqueNames(seeders) /\ NoMissingDependency(seeders) /\ ~Cyclic(seeders)
    /\ Len(seeders) = 3
    /\ Cardinality(Range(seeders[1].dependsOn)) = 2
    /\ seeders[3].dependsOn # <<>>
    /\ resolution.kind = "order"
    /\ resolution.order[3] = seeders[1].name

\* C2: for an acyclic array with unique names and no missing dependency,
\* the returned order is a permutation of the array's names.
C2_Permutation ==
    (Resolved /\ UniqueNames(seeders) /\ NoMissingDependency(seeders) /\ ~Cyclic(seeders))
    => /\ resolution.kind = "order"
       /\ Len(resolution.order) = Len(seeders)
       /\ \A k \in 1..Len(seeders) :
            Cardinality(Positions(resolution.order, seeders[k].name)) = 1

C2_Witness ==
    /\ Resolved /\ UniqueNames(seeders) /\ NoMissingDependency(seeders) /\ ~Cyclic(seeders)
    /\ Len(seeders) = 3
    /\ EdgeCount(seeders) >= 2
    /\ Len(resolution.order) = 3
    /\ resolution.order # [k \in 1..3 |-> seeders[k].name]

\* C3: when every declared dependency exists and the graph holds a cycle,
\* resolveDependencyOrder throws CircularDependencyError and returns no order.
C3_CycleRaises ==
    (Resolved /\ NoMissingDependency(seeders) /\ Cyclic(seeders))
    => /\ resolution.kind = "CircularDependencyError"
       /\ resolution.order = <<>>

\* An indirect cycle through three seeders.
C3_Witness ==
    /\ Resolved /\ NoMissingDependency(seeders) /\ UniqueNames(seeders)
    /\ Len(seeders) = 3
    /\ \A k \in 1..3 : /\ Len(seeders[k].dependsOn) = 1
                       /\ seeders[k].dependsOn[1] # seeders[k].name
                       /\ TransitiveDeps(seeders, seeders[k].name) = SeederKeys(seeders)
    /\ resolution.kind = "CircularDependencyError"

\* C4: when some seeder names a dependency no seeder of the array carries,
\* resolveDependencyOrder throws MissingDependencyError naming a seeder of
\* the array and a name it declares that no seeder carries.
C4_MissingRaises ==
    (Resolved /\ ~NoMissingDependency(seeders))
    => /\ resolution.kind = "MissingDependencyError"
       /\ resolution.missingDep \notin SeederKeys(seeders)
       /\ \E k \in 1..Len(seeders) :
            /\ seeders[k].name = resolution.seeder
            /\ resolution.missingDep \in Range(seeders[k].dependsOn)

\* The seeder with the missing dependency is listed last, after two seeders
\* whose dependencies exist, and its first dependency exists too.
C4_Witness ==
    /\ Resolved
    /\ Len(seeders) = 3
    /\ NoMissingDependency(SubSeq(seeders, 1, 2))
    /\ seeders[1].dependsOn # <<>>
    /\ Len(seeders[3].dependsOn) = 2
    /\ seeders[3].dependsOn[1] \in SeederKeys(seeders)
    /\ seeders[3].dependsOn[2] \notin SeederKeys(seeders)
    /\ resolution.kind = "MissingDependencyError"
    /\ resolution.seeder = seeders[3].name

\* C5: when CircularDependencyError is thrown for an array with unique
\* names, the reported sequence is a cycle of the graph: it is not empty,
\* each member declares the next as a dependency, the last declares the
\* first, and no name occurs twice.
C5_ReportedCycleIsCycle ==
    (Resolved /\ UniqueNames(seeders) /\ resolution.kind = "CircularDependencyError")
    => LET c == resolution.cycle IN
       /\ c # <<>>
       /\ \A k \in 1..Len(c) : c[k] \in SeederKeys(seeders)
       /\ \A k \in 1..(Len(c) - 1) : c[k + 1] \in DirectDeps(seeders, c[k])
       /\ c[1] \in DirectDeps(seeders, c[Len(c)])
       /\ \A j, k \in 1..Len(c) : j # k => c[j] # c[k]

\* The first-listed seeder depends on a member of a two-seeder cycle and is
\* itself on no cycle: the search starts from it, the report leaves it out.
C5_Witness ==
    /\ Resolved /\ UniqueNames(seeders)
    /\ Len(seeders) = 3
    /\ seeders[1].name \notin TransitiveDeps(seeders, seeders[1].name)
    /\ seeders[1].dependsOn # <<>>
    /\ resolution.kind = "CircularDependencyError"
    /\ Len(resolution.cycle) = 2
    /\ ~Includes(resolution.cycle, seeders[1].name)

(***************************************************************************)
(* Properties of a run                                                     *)
(***************************************************************************)
\* runSeeders has resolved, after an execution order was found.
RunReturned == pc = "done" /\ resolution.kind = "order" /\ returned # None

\* The status of the ledger entry called n.
StatusOf(n) == results[IndexOf(orderedNames, n)].status

\* The indices of the invocations of n's run function.
CallsOf(n) == {k \in 1..Len(calls) : calls[k].name = n}

\* The indices of the invocations that rejected.
RejectedCalls == {k \in 1..Len(calls) : calls[k].outcome = "rejected"}

\* C6: when the array resolves and every run function succeeds, the
\* returned ledger holds every seeder as completed and success is true.
C6_AllCompleted ==
    (RunReturned /\ RejectedCalls = {})
    => /\ returned[1].success = TRUE
       /\ Len(returned[1].results) = Len(seeders)
       /\ \A k \in 1..Len(seeders) :
            \E j \in 1..Len(returned[1].results) :
               /\ returned[1].results[j].name = seeders[k].name
               /\ returned[1].results[j].status = "completed"

\* C7: whenever a run function is executing, every dependency its seeder
\* declares is completed and the deps argument holds, under that name, the
\* output the dependency's run function resolved with in this run.
C7_DependenciesCompleted ==
    pc = "running"
    => LET call == calls[Len(calls)] IN
       \A d \in DirectDeps(seeders, call.name) :
          /\ Includes(orderedNames, d)
          /\ StatusOf(d) = "completed"
          /\ d \in DOMAIN call.deps
          /\ \E k \in CallsOf(d) : /\ calls[k].outcome = "resolved"
                                   /\ calls[k].value = Some(call.deps[d])

\* The run has settled without any callback of the configuration raising.
SettledWithoutHookError == pc = "done" /\ rejected # Some(HookError)

\* C8: without continueOnFailure, once a run function has rejected no
\* further run function is invoked: the rejected invocation stays the last
\* one, its seeder is failed, every later entry of the ledger stays pending
\* and the run, when no callback of the configuration has raised, returns
\* success = false.
C8_StopsOnFailure ==
    (~continueOnFailure /\ RejectedCalls # {})
    => LET k == CHOOSE r \in RejectedCalls : TRUE
           p == IndexOf(orderedNames, calls[k].name)
       IN /\ RejectedCalls = {Len(calls)}
          /\ pc \in {"onAfterAll", "return", "done"}
          /\ p >= 1
          /\ results[p].status = "failed"
          /\ \A j \in (p + 1)..Len(results) : results[j].status = "pending"
          /\ SettledWithoutHookError => returned = Some(RunResult(results, FALSE))

\* C9: with continueOnFailure, a seeder ends skipped, its run function
\* never invoked, exactly when one of its transitive dependencies is
\* failed; every other seeder has its run function invoked and ends
\* completed or failed.
C9_SkippedIffFailedAncestor ==
    (RunReturned /\ continueOnFailure)
    => \A k \in 1..Len(results) :
          LET n == results[k].name
              failedAncestor == \E d \in TransitiveDeps(seeders, n) :
                                   Includes(orderedNames, d) /\ StatusOf(d) = "failed"
          IN /\ results[k].status = "skipped" <=> failedAncestor
             /\ results[k].status = "skipped" => CallsOf(n) = {}
             /\ results[k].status # "skipped"
                  => CallsOf(n) # {} /\ results[k].status \in {"completed", "failed"}

\* C10: when resolution succeeded, the returned success flag is false
\* exactly when some entry of the returned ledger is failed.
C10_SuccessIffNoFailed ==
    RunReturned
    => (returned[1].success = FALSE
          <=> \E k \in 1..Len(returned[1].results) : returned[1].results[k].status = "failed")

\* A returned ledger with a pending entry beside a completed one and no
\* failed entry: success is true.
C10_Witness ==
    /\ RunReturned
    /\ \E k \in 1..Len(returned[1].results) : returned[1].results[k].status = "pending"
    /\ \E k \in 1..Len(returned[1].results) : returned[1].results[k].status = "completed"
    /\ \A k \in 1..Len(returned[1].results) : returned[1].results[k].status # "failed"
    /\ returned[1].success = TRUE

(***************************************************************************)
(* Claims C11 to C20                                                       *)
(***************************************************************************)
\* C11: whatever a run function rejects with, the run does not reject: it
\* returns a ledger in which that seeder is failed with the rejection
\* recorded as its error, and success is false.
C11_FailureNeverRaises ==
    SettledWithoutHookError
    => \A k \in RejectedCalls :
          LET p == IndexOf(orderedNames, calls[k].name) IN
          /\ rejected = None
          /\ returned # None
          /\ returned[1].success = FALSE
          /\ returned[1].results[p].status = "failed"
          /\ returned[1].results[p].error = Some(ToError(calls[k].value[1]))

\* Resolving the execution order failed.
ResolutionFailed == resolution.kind \in {"MissingDependencyError", "CircularDependencyError"}

\* C12: when resolving the execution order fails, no run function is
\* invoked and the run returns an empty ledger with success = false.
C12_ResolutionFailureRunsNothing ==
    ResolutionFailed
    => /\ calls = <<>>
       /\ pc \in {"onAfterAll", "return", "done"}
       /\ pc = "done" => returned = Some(RunResult(<<>>, FALSE)) /\ rejected = None

\* A run over two seeders, one naming a dependency nobody defines, has
\* returned.
C12_Witness ==
    /\ pc = "done"
    /\ resolution.kind = "MissingDependencyError"
    /\ Len(seeders) = 2
    /\ returned[1].results = <<>>
    /\ returned[1].success = FALSE

\* C13: when the array has a circular or a missing dependency, awaiting
\* runSeeders rejects with CircularDependencyError or
\* MissingDependencyError respectively.
C13_ResolutionFailureRaises ==
    (pc = "done" /\ ResolutionFailed) => rejected = Some(resolution.kind)

\* C14: within one run every seeder's run function is invoked at most
\* once, and exactly once in a run where no run function fails.
C14_InvokedExactlyOnce ==
    /\ \A k \in 1..Len(seeders) : Cardinality(CallsOf(seeders[k].name)) <= 1
    /\ (RunReturned /\ RejectedCalls = {})
       => \A k \in 1..Len(seeders) : Cardinality(CallsOf(seeders[k].name)) = 1

\* C15: no two run functions are in progress at the same time: an
\* invocation that has not settled is the last one made, the loop is
\* waiting for it, and the invocations follow the positions of the order.
C15_OneAtATime ==
    /\ \A k \in 1..Len(calls) :
          calls[k].outcome = "running" => k = Len(calls) /\ pc = "running"
    /\ \A j, k \in 1..Len(calls) :
          j < k => IndexOf(orderedNames, calls[j].name) < IndexOf(orderedNames, calls[k].name)

\* A second run function is executing after the first one rejected and a
\* third seeder waits for its turn.
C15_Witness ==
    /\ pc = "running"
    /\ Len(calls) = 2
    /\ calls[1].outcome = "rejected"
    /\ calls[2].outcome = "running"
    /\ Len(orderedNames) = 3

\* The number of times the event e has happened.
Count(e) == Cardinality({k \in 1..Len(events) : events[k] = e})

\* C16: in every run onBeforeAll is invoked exactly once, before the
\* resolution and before any run function, and onAfterAll is invoked
\* exactly once, after the last seeder processed, whatever the outcome.
C16_HooksExactlyOnce ==
    /\ events # <<>> => events[1] = "onBeforeAll"
    /\ Count("onBeforeAll") <= 1
    /\ Count("onAfterAll") <= 1
    /\ SettledWithoutHookError
       => /\ Count("onBeforeAll") = 1
          /\ Count("onAfterAll") = 1
          /\ events[Len(events)] = "onAfterAll"

\* C17: isSeedingActive() is false before the run starts, true whenever a
\* run function of the run is executing, and false after the run returned.
C17_SeedingFlagFollowsRun ==
    /\ pc = "define" => ~isSeeding
    /\ pc = "running" => isSeeding
    /\ returned # None => ~isSeeding

\* The second run function of a run is executing and the flag is up.
C17_Witness ==
    /\ pc = "running"
    /\ Len(calls) = 2
    /\ calls[1].outcome = "resolved"
    /\ isSeeding

\* C18: once the promise of runSeeders has settled, fulfilled or rejected,
\* isSeedingActive() is false, whatever the outcome of the run.
C18_InactiveOnceSettled ==
    pc = "done" => ~isSeeding

\* C19: the deps argument of a run function has exactly the names its
\* seeder declares in dependsOn as its keys, whatever else has completed.
C19_DepsAreDeclaredOnly ==
    \A k \in 1..Len(calls) : DOMAIN calls[k].deps = DirectDeps(seeders, calls[k].name)

\* The calls of step made with useCache on a runner that has a cache.
CachedSteps == {k \in 1..Len(steps) : steps[k].useCache /\ hasCache}

\* Every call of step up to k was made with no earlier call in flight.
Sequential(k) == \A j \in 1..k : steps[j].alone

\* The step call k found a defined value in the cache: it returns that
\* value, and neither invokes fn nor calls cache.set.
HitReturnsCached(k) ==
    (steps[k].got # None /\ steps[k].got # Some(Undefined))
    => /\ ~steps[k].fnCalled
       /\ steps[k].fnSettled = None
       /\ steps[k].set = None
       /\ steps[k].outcome # "raised"
       /\ steps[k].outcome = "returned" => steps[k].value = steps[k].got

\* C20: a cached step whose cache.get returns a defined value returns it
\* without invoking fn or calling cache.set; so of the sequential cached
\* calls with one key, only the first invokes fn.
C20_FnOnlyOnFirstCall ==
    \A k \in CachedSteps :
       /\ HitReturnsCached(k)
       /\ Sequential(k)
          => \A j \in CachedSteps :
                (j < k /\ steps[j].cacheKey = steps[k].cacheKey) => ~steps[k].fnCalled

\* C20, amended: a cached step whose cache.get returns a defined value
\* returns it without invoking fn or calling cache.set; so of the
\* sequential cached calls with one key, a call invokes fn exactly when no
\* earlier one had its fn resolve with a value other than undefined.
C20_FnUntilDefinedResult ==
    \A k \in CachedSteps :
       /\ HitReturnsCached(k)
       /\ (Sequential(k) /\ steps[k].at # "get")
          => (steps[k].fnCalled
              <=> ~\E j \in CachedSteps :
                      /\ j < k
                      /\ steps[j].cacheKey = steps[k].cacheKey
                      /\ steps[j].set # None
                      /\ steps[j].set # Some(Undefined))

\* Two cached steps with one key, one after the other: the first ran fn
\* and stored its result, the second returned it from the cache without
\* running fn.
C20_Witness ==
    /\ Len(steps) = 2
    /\ CachedSteps = {1, 2}
    /\ Sequential(2)
    /\ steps[1].cacheKey = steps[2].cacheKey
    /\ steps[1].fnCalled /\ steps[1].set = Some("v1")
    /\ ~steps[2].fnCalled /\ steps[2].outcome = "returned" /\ steps[2].value = Some("v1")

(***************************************************************************)
(* Claims C21 to C30                                                       *)
(***************************************************************************)
\* Two calls of step with one description under two different seeder names
\* have two different keys.
ScopedBySeederName ==
    \A j, k \in 1..Len(steps) :
       (steps[j].description = steps[k].description /\ steps[j].seederName # steps[k].seederName)
       => steps[j].cacheKey # steps[k].cacheKey

\* A defined value a call of step found in the cache was stored by an
\* earlier call made under the same seeder name.
ReadsOwnEntryOnly ==
    \A k \in CachedSteps :
       (steps[k].got # None /\ steps[k].got # Some(Undefined))
       => \E j \in CachedSteps : /\ j < k
                                 /\ steps[j].set = steps[k].got
                                 /\ steps[j].cacheKey = steps[k].cacheKey
                                 /\ steps[j].seederName = steps[k].seederName

\* C21: the cache key of a step is the current seeder name joined by ':'
\* to the slug of the description, so steps with one description under
\* two seeder names use two keys and neither reads nor overwrites the
\* other's entry.
C21_KeyIsNameColonSlug ==
    /\ \A k \in 1..Len(steps) :
          steps[k].cacheKey = steps[k].seederName \o ":" \o Slugify(steps[k].description)
    /\ ScopedBySeederName
    /\ ReadsOwnEntryOnly

\* C21, amended: the cache key of a step is the slug of the description,
\* preceded by the current seeder name and ':' when that name is not
\* empty; steps with one description under two seeder names use two keys
\* and neither reads nor overwrites the other's entry.
C21_KeyScopedByName ==
    /\ \A k \in 1..Len(steps) :
          /\ steps[k].seederName # ""
             => steps[k].cacheKey = steps[k].seederName \o ":" \o Slugify(steps[k].description)
          /\ steps[k].seederName = ""
             => steps[k].cacheKey = Slugify(steps[k].description)
    /\ ScopedBySeederName
    /\ ReadsOwnEntryOnly

\* One description cached under the names a and b, the second call made
\* while the first awaited its fn: both calls ran fn and the cache holds
\* an entry for each.
C21_Witness ==
    /\ Len(steps) = 2
    /\ CachedSteps = {1, 2}
    /\ ~steps[2].alone
    /\ steps[1].description = steps[2].description
    /\ steps[1].seederName = "a" /\ steps[2].seederName = "b"
    /\ steps[1].set = Some("v1") /\ steps[2].set = Some("v1")
    /\ steps[2].fnCalled
    /\ Cardinality(DOMAIN cache) = 2

\* C22: resolving the same array twice gives the same outcome both times,
\* and resolution leaves the array and its seeders as they were: each call
\* leaves in the array what it found there, and returns or throws what the
\* first call did.
C22_ResolutionRepeatable ==
    \A k \in 1..Len(resolutions) :
       /\ resolutions[k].left = resolutions[k].input
       /\ resolutions[k].outcome = resolutions[1].outcome
       /\ k = Len(resolutions) => seeders = resolutions[k].left

\* An array of a seeder that resolves and one that depends on itself has
\* been resolved twice: the array holds both seeders after both calls, and
\* the same cycle is reported both times.
C22_Witness ==
    /\ Len(resolutions) = 2
    /\ Len(seeders) = 2
    /\ seeders[1].dependsOn = <<>>
    /\ resolutions[1].outcome.kind = "CircularDependencyError"
    /\ resolutions[1].outcome.cycle = <<seeders[2].name>>
    /\ resolutions[2].outcome = resolutions[1].outcome
    /\ resolutions[2].left = resolutions[1].input

\* C23: for an array of zero seeders resolution yields the empty order
\* without error, and a run over it returns an empty ledger with
\* success = true, which a resolution failure never does.
C23_EmptyArraySucceeds ==
    /\ (seeders = <<>> /\ resolution # Unresolved) => resolution = Ordered(<<>>)
    /\ (seeders = <<>> /\ pc = "done")
       => /\ calls = <<>>
          /\ returned # None
          /\ returned[1].results = <<>>
          /\ returned[1].success = TRUE
    /\ (ResolutionFailed /\ pc = "done")
       => /\ returned # None
          /\ returned[1].results = <<>>
          /\ returned[1].success = FALSE

\* A run over the empty array has returned.
C23_Witness ==
    /\ seeders = <<>>
    /\ pc = "done"
    /\ resolution.kind = "order"
    /\ returned[1].results = <<>>
    /\ returned[1].success = TRUE

\* C24: when the array holds both a cycle and a seeder naming a dependency
\* nobody defines, resolveDependencyOrder throws MissingDependencyError,
\* wherever the two defects are.
C24_MissingBeforeCycle ==
    (Resolved /\ Cyclic(seeders) /\ ~NoMissingDependency(seeders))
    => resolution.kind = "MissingDependencyError"

\* The cycle comes first in the array and the missing dependency after it.
C24_Witness ==
    /\ Resolved
    /\ Len(seeders) = 3
    /\ seeders[2].name \in Range(seeders[1].dependsOn)
    /\ seeders[1].name \in Range(seeders[2].dependsOn)
    /\ seeders[1].name # seeders[2].name
    /\ \E d \in Range(seeders[3].dependsOn) : d \notin SeederKeys(seeders)
    /\ resolution.kind = "MissingDependencyError"
    /\ resolution.seeder = seeders[3].name

RECURSIVE ReferenceProcess(_, _, _)
\* The reference procedure, in terms of sets: the head of the ready-queue
\* goes to the result, and the seeders that depend on it and have every
\* dependency in the result by now join the tail, in array order.
ReferenceProcess(ss, queue, result) ==
    IF queue = <<>> THEN result
    ELSE LET head == Head(queue)
             done == Range(result) \cup {head}
             ready == SelectSeq(ss, LAMBDA s : /\ head \in Range(s.dependsOn)
                                               /\ Range(s.dependsOn) \subseteq done)
         IN ReferenceProcess(ss, Tail(queue) \o [k \in 1..Len(ready) |-> ready[k].name],
                             Append(result, head))

\* The order of the reference FIFO procedure for the array ss.
ReferenceOrder(ss) ==
    LET roots == SelectSeq(ss, LAMBDA s : s.dependsOn = <<>>)
    IN ReferenceProcess(ss, [k \in 1..Len(roots) |-> roots[k].name], <<>>)

\* C25: for an acyclic array with unique names the returned order is the
\* one of the reference FIFO procedure: ties among ready seeders are
\* broken by the order of the array, not by name.
C25_FifoOrder ==
    (Resolved /\ UniqueNames(seeders) /\ NoMissingDependency(seeders) /\ ~Cyclic(seeders))
    => resolution = Ordered(ReferenceOrder(seeders))

\* Three seeders, the first depending on the two after it: of those two,
\* both ready at the start, the one defined first comes out first although
\* its name sorts last, and their dependent comes out after them.
C25_Witness ==
    /\ Resolved
    /\ Len(seeders) = 3
    /\ seeders[1].name = "b" /\ seeders[2].name = "a" /\ seeders[3].name = ""
    /\ seeders[3].dependsOn = <<>>
    /\ seeders[1].dependsOn = <<"a", "">>
    /\ resolution = Ordered(<<"a", "", "b">>)

\* The statuses no entry leaves once it has one of them.
Terminal == {"completed", "failed", "skipped"}

\* The ledger is created with every entry pending.
CreatedPending ==
    (results = <<>> /\ results' # <<>>)
    => \A k \in 1..Len(results') : results'[k].status = "pending"

\* Every change of status of an entry of the ledger is one of the steps.
StatusSteps(allowed) ==
    \A k \in 1..Len(results) :
       (k <= Len(results') /\ results'[k].status # results[k].status)
       => <<results[k].status, results'[k].status>> \in allowed

\* C26: every entry is created pending and goes through running, exactly
\* once, to completed, failed or skipped; a terminal status never changes.
C26_ThroughRunningToTerminal ==
    [][/\ CreatedPending
       /\ Len(results) > 0 => Len(results') = Len(results)
       /\ StatusSteps({<<"pending", "running">>, <<"running", "completed">>,
                       <<"running", "failed">>, <<"running", "skipped">>})]_vars

\* C26, amended: every entry is created pending; its status changes only
\* from pending to running and from running to completed or failed, or
\* from pending to skipped without ever being running; a terminal status
\* never changes.
C26_StatusLifecycle ==
    [][/\ CreatedPending
       /\ Len(results) > 0 => Len(results') = Len(results)
       /\ StatusSteps({<<"pending", "running">>, <<"running", "completed">>,
                       <<"running", "failed">>, <<"pending", "skipped">>})]_vars

\* A returned ledger with a failed entry and, after it, an entry skipped
\* without its run function having been called.
C26_Witness ==
    /\ RunReturned
    /\ Len(results) >= 2
    /\ results[1].status = "failed"
    /\ results[2].status = "skipped"
    /\ CallsOf(results[2].name) = {}

\* C27: in every state of a run and in the returned ledger, an entry
\* carries an output only if it is completed, an error only if it is
\* failed and a duration only if it is completed or failed.
C27_FieldsFollowStatus ==
    LET FieldsOk(r) == /\ r.output # None => r.status = "completed"
                       /\ r.error # None => r.status = "failed"
                       /\ r.durationMs # None => r.status \in {"completed", "failed"}
    IN /\ \A k \in 1..Len(results) : FieldsOk(results[k])
       /\ returned # None => \A k \in 1..Len(returned[1].results) : FieldsOk(returned[1].results[k])

\* A ledger with a completed entry, a failed one and one that stays
\* pending, when the loop has stopped.
C27_Witness ==
    /\ pc = "onAfterAll"
    /\ Len(results) = 3
    /\ results[1].status = "completed"
    /\ results[1].output # None /\ results[1].durationMs # None /\ results[1].error = None
    /\ results[2].status = "failed"
    /\ results[2].error # None /\ results[2].durationMs # None /\ results[2].output = None
    /\ results[3].status = "pending"
    /\ results[3].durationMs = None

\* C28: whenever resolution succeeds, the returned ledger has exactly one
\* entry per name of the execution order, entry i carrying the name at
\* position i, the entries of seeders not reached being pending.
C28_LedgerFollowsOrder ==
    RunReturned
    => /\ Len(returned[1].results) = Len(resolution.order)
       /\ \A k \in 1..Len(resolution.order) : returned[1].results[k].name = resolution.order[k]
       /\ \A k \in 1..Len(resolution.order) :
             (CallsOf(resolution.order[k]) = {} /\ returned[1].results[k].status # "skipped")
             => returned[1].results[k].status = "pending"

\* An early stop: the second of three seeders failed, the third was not
\* reached and its entry is there, pending.
C28_Witness ==
    /\ RunReturned /\ ~continueOnFailure
    /\ Len(returned[1].results) = 3
    /\ returned[1].results[1].status = "completed"
    /\ returned[1].results[2].status = "failed"
    /\ returned[1].results[3].status = "pending"
    /\ returned[1].results[3].name = resolution.order[3]

\* A name is in the outputs store iff its entry is completed, in
\* failedSeeders iff its entry is failed or skipped, and never in both.
StoresFollowStatus ==
    /\ DOMAIN outputs \cap failedSeeders = {}
    /\ DOMAIN outputs \cup failedSeeders \subseteq Range(orderedNames)
    /\ \A k \in 1..Len(results) :
          /\ results[k].name \in DOMAIN outputs <=> results[k].status = "completed"
          /\ results[k].name \in failedSeeders <=> results[k].status \in {"failed", "skipped"}

\* A step of the run writes a name to one of the two stores only when its
\* entry gets the matching status, and never writes a name again.
StoresWrittenOnce ==
    /\ \A n \in DOMAIN outputs : n \in DOMAIN outputs' /\ outputs'[n] = outputs[n]
    /\ failedSeeders \subseteq failedSeeders'
    /\ \A n \in DOMAIN outputs' \ DOMAIN outputs :
          /\ results[IndexOf(orderedNames, n)].status = "running"
          /\ results'[IndexOf(orderedNames, n)].status = "completed"
    /\ \A n \in failedSeeders' \ failedSeeders :
          /\ results[IndexOf(orderedNames, n)].status \in {"pending", "running"}
          /\ results'[IndexOf(orderedNames, n)].status \in {"failed", "skipped"}

\* C29: within one run a name is written to the outputs store at most
\* once, when its seeder completes, and to failedSeeders at most once,
\* when it fails or is skipped; at every point a name is in outputs iff
\* its status is completed and in failedSeeders iff it is failed or skipped.
C29_StoresWriteOnce ==
    [](StoresFollowStatus) /\ [][StoresWrittenOnce]_vars

\* The loop of the run has begun, or the run has returned.
LoopBegunOrReturned == pc \in {"loop", "running"} \/ returned # None

\* C30: the context is produced exactly once per run, by invoking the
\* factory before the loop begins, also when the resolution fails, and
\* every run function of the run receives that one instance.
C30_OneContextPerRun ==
    /\ contexts <= 1
    /\ LoopBegunOrReturned => contexts = 1 /\ ctx = Some(1)
    /\ \A k \in 1..Len(calls) : calls[k].ctx = ctx

\* C30, amended: the factory is invoked at most once per run and every
\* run function of the run receives the one instance it returned.  A run
\* started through runSeeders of an instance invokes it first of all, also
\* when the resolution fails; runSeedersCore called directly invokes it
\* after a successful resolution, before the loop, and not at all when
\* the resolution fails.
C30_OneContextPerRunByEntry ==
    /\ contexts <= 1
    /\ \A k \in 1..Len(calls) : calls[k].ctx = ctx /\ ctx = Some(1)
    /\ entry = "runSeeders"
       => /\ contexts = 1
          /\ LoopBegunOrReturned => ctx = Some(1)
    /\ entry = "runSeedersCore"
       => /\ pc \in {"loop", "running"} => contexts = 1 /\ ctx = Some(1)
          /\ pc = "resolve" => contexts = 0
          /\ ResolutionFailed => contexts = 0 /\ ctx = None
          /\ (returned # None /\ ~ResolutionFailed) => contexts = 1 /\ ctx = Some(1)

\* A run through runSeeders whose resolution failed has returned: the
\* factory was invoked once and no run function was.
C30_Witness ==
    /\ pc = "done"
    /\ entry = "runSeeders"
    /\ returned # None
    /\ ResolutionFailed
    /\ contexts = 1
    /\ calls = <<>>

(***************************************************************************)
(* Claims C31 to C39                                                       *)
(***************************************************************************)
\* The cached calls of step whose cache.get returned undefined and that
\* have returned or raised.
SettledMisses ==
    {k \in CachedSteps : steps[k].got = Some(Undefined) /\ steps[k].outcome # "running"}

\* C31: a cached step whose cache.get returns undefined invokes fn once,
\* then calls cache.set once with the key and fn's result and returns the
\* result; when fn raises, cache.set is not called, nothing is cached and
\* the step raises the same error.  cache.set is never called before fn
\* has resolved, and what it stored is there when the calls were made one
\* after another.
C31_MissRunsAndStores ==
    /\ \A k \in CachedSteps :
          /\ steps[k].set # None => steps[k].set = steps[k].fnSettled
          /\ (steps[k].at = "set" /\ Sequential(Len(steps)))
             => CacheGet(cache, steps[k].cacheKey) = steps[k].set[1]
    /\ \A k \in SettledMisses :
          /\ steps[k].fnCalled
          /\ steps[k].fnSettled # None
          /\ steps[k].value = steps[k].fnSettled
          /\ steps[k].outcome = "returned"
             => /\ steps[k].fnSettled[1] \in StepValues
                /\ steps[k].set = steps[k].fnSettled
                /\ (k = Len(steps) /\ Sequential(k))
                   => CacheGet(cache, steps[k].cacheKey) = steps[k].value[1]
          /\ steps[k].outcome = "raised"
             => /\ steps[k].fnSettled[1] \in StepErrors
                /\ steps[k].set = None
                /\ (k = Len(steps) /\ Sequential(k))
                   => CacheGet(cache, steps[k].cacheKey) = Undefined

\* A cached step missed and its fn raised; the next call with the same key
\* missed again, ran fn, stored its result and returned it.
C31_Witness ==
    /\ SettledMisses = {1, 2}
    /\ steps[1].cacheKey = steps[2].cacheKey
    /\ steps[1].outcome = "raised" /\ steps[1].set = None
    /\ steps[2].outcome = "returned" /\ steps[2].set = Some("v1")
    /\ cache[steps[2].cacheKey] = "v1"

\* The sequence s without the later occurrences of its members.
WithoutRepeats(s) ==
    LET firsts == SelectSeq([k \in 1..Len(s) |-> k],
                            LAMBDA k : \A j \in 1..(k - 1) : s[j] # s[k])
    IN [k \in 1..Len(firsts) |-> s[firsts[k]]]

\* The array ss with the repeated names of every dependsOn removed.
WithoutRepeatedDeps(ss) ==
    [k \in 1..Len(ss) |-> Seeder(ss[k].name, WithoutRepeats(ss[k].dependsOn))]

\* Some seeder of ss lists a dependency more than once.
RepeatsDependency(ss) ==
    \E k \in 1..Len(ss) : WithoutRepeats(ss[k].dependsOn) # ss[k].dependsOn

\* C32: for an acyclic array in which a seeder lists an existing
\* dependency more than once, resolveDependencyOrder returns the order it
\* returns for the array without the repetitions: every seeder once,
\* after its dependencies, and no CircularDependencyError.
C32_RepeatedDependencyHarmless ==
    (Resolved /\ UniqueNames(seeders) /\ NoMissingDependency(seeders) /\ ~Cyclic(seeders)
       /\ RepeatsDependency(seeders))
    => /\ resolution.kind = "order"
       /\ resolution = resolveDependencyOrder(WithoutRepeatedDeps(seeders))
       /\ \A k \in 1..Len(seeders) :
             /\ Cardinality(Positions(resolution.order, seeders[k].name)) = 1
             /\ \A d \in DirectDeps(seeders, seeders[k].name) :
                   IndexOf(resolution.order, d) < IndexOf(resolution.order, seeders[k].name)

\* The last seeder lists the first one twice and the second one once.
C32_Witness ==
    /\ Resolved
    /\ Len(seeders) = 3
    /\ seeders[2].dependsOn = <<>>
    /\ seeders[3].dependsOn = <<seeders[1].name, seeders[2].name, seeders[1].name>>
    /\ resolution = Ordered(<<seeders[1].name, seeders[2].name, seeders[3].name>>)

\* Leaving the state in which the loop awaits a run function takes that
\* run function settling: nothing else, no timeout, ends the wait.
OnlySettlingEndsWait ==
    (pc = "running" /\ pc' # "running")
    => /\ Len(calls') = Len(calls)
       /\ calls'[Len(calls)].outcome \in {"resolved", "rejected"}

\* C33: resolution ends for every array and, when the callbacks and the
\* invoked run functions settle, every run returns its ledger, in both
\* failure modes; only a run function settling ends the wait for it.
C33_EveryRunReturns ==
    /\ (pc = "onBeforeAll") ~> (pc = "done" /\ returned # None)
    /\ [][OnlySettlingEndsWait]_vars

\* C33, amended: resolution ends for every array and, when the callbacks
\* and the invoked run functions settle, every run settles, in both
\* failure modes: it returns its ledger, or it rejects, which it does only
\* when a callback rejected or the catch block could not convert what a
\* run function rejected with; only a run function settling ends the wait.
C33_EveryRunSettles ==
    /\ (pc = "onBeforeAll") ~> (pc = "done" /\ (returned # None \/ rejected # None))
    /\ [](pc = "done" => /\ returned = None <=> rejected # None
                         /\ rejected # None => rejected \in {Some(HookError), Some(TypeError)}
                         /\ rejected = Some(TypeError)
                            => calls[Len(calls)].value = Some(Unprintable))
    /\ [][OnlySettlingEndsWait]_vars

\* A run over a cyclic array has returned, and so has, in continue mode, a
\* run whose first run function rejected.
C33_Witness ==
    /\ pc = "done"
    /\ returned # None
    /\ \/ resolution.kind = "CircularDependencyError"
       \/ continueOnFailure /\ Len(calls) = 2 /\ calls[1].outcome = "rejected"


\* The statuses of the returned ledger, in ledger order.
ReturnedStatuses == [k \in 1..Len(returned[1].results) |-> returned[1].results[k].status]

\* C34: with continueOnFailure false the returned ledger is zero or more
\* completed entries, then at most one failed entry, then only pending
\* entries; no entry is skipped and none is left running.
C34_StopModeShape ==
    (RunReturned /\ ~continueOnFailure)
    => /\ Range(ReturnedStatuses) \subseteq {"completed", "failed", "pending"}
       /\ \A j, k \in 1..Len(ReturnedStatuses) :
             (j < k /\ ReturnedStatuses[j] # "completed") => ReturnedStatuses[k] = "pending"

\* C35: with continueOnFailure true and an array that resolves, the
\* returned ledger has no pending and no running entry: every entry is
\* completed, failed or skipped.
C35_ContinueModeAllTerminal ==
    (RunReturned /\ continueOnFailure)
    => Range(ReturnedStatuses) \subseteq {"completed", "failed", "skipped"}

\* C36: for every array that resolves, whatever the names (the empty
\* string included) and in either failure mode, success is true exactly
\* when every ledger entry is completed; a ledger with a skipped or a
\* pending entry also has a failed entry.
C36_SuccessIffAllCompleted ==
    RunReturned
    => /\ returned[1].success = TRUE <=> Range(ReturnedStatuses) \subseteq {"completed"}
       /\ (Range(ReturnedStatuses) \cap {"skipped", "pending"} # {})
             => "failed" \in Range(ReturnedStatuses)


\* C37: resolveDependencyOrder throws CircularDependencyError only when
\* the dependency graph contains a cycle, and the cycle it reports is not
\* empty, for every array whose dependencies all exist, an array that
\* holds two seeders with the same name included.
C37_CircularOnlyForCycles ==
    (Resolved /\ NoMissingDependency(seeders) /\ resolution.kind = "CircularDependencyError")
    => /\ Cyclic(seeders)
       /\ resolution.cycle # <<>>


\* C38: when two runSeeders invocations overlap, isSeedingActive() is
\* true whenever a run function of either invocation is executing: the end
\* of one run does not clear the flag under the other.
C38_FlagCoversOverlappingRuns ==
    \A r \in Runs : runs[r].pc = "running" => isSeeding = TRUE


\* C39: in a run started through runSeeders, while the run function of
\* seeder u executes the step runner's current seeder name is u: the key
\* of a cached step called inside it is u's name, ':' and the slug, and is
\* not the key the step would have under the name of an earlier entry of
\* the ledger, executed, skipped or passed over.
C39_CurrentNameIsRunningSeeder ==
    pc = "running"
    => LET u == calls[Len(calls)].name IN
       /\ u = orderedNames[i]
       /\ results[i].status = "running"
       /\ currentSeederName = u
       /\ \A d \in Descriptions :
             /\ CacheKey(currentSeederName, d) = u \o ":" \o Slugify(d)
             /\ \A k \in 1..(i - 1) :
                   CacheKey(currentSeederName, d) # CacheKey(orderedNames[k], d)

\* The second run function of a run executes, after the first one
\* completed or failed.
C39_Witness ==
    /\ pc = "running"
    /\ i = 2
    /\ Len(calls) = 2
    /\ results[1].status \in {"completed", "failed"}
    /\ currentSeederName = orderedNames[2]
    /\ currentSeederName # calls[1].name

====
